---------------------------- MODULE Spec2Model ----------------------------
(***************************************************************************)
(* Model of the insurance quotation comparison engine (pdf_parser.py and   *)
(* app.py).  Strings are sequences of one-character strings, so that       *)
(* upper-casing, substring tests, currency formatting and number parsing   *)
(* are computed character by character as the Python code computes them.   *)
(* Amounts are fixed-point integers in units of 1/10000 (Scale), which     *)
(* represents the two-decimal tokens, the 16% tax on them and their sum    *)
(* without loss.                                                           *)
(***************************************************************************)
EXTENDS Integers, Sequences, FiniteSets, TLC

VARIABLES text, readable, pc, company, result,
          prima_neta_raw, prima_total_raw, recargos_raw, derechos_raw,
          fpc, loc, fin,
          files, idx, bpc, parsed_data, origin, errors, extracted,
          detected_vehicle, header_colors, company_col_width, dyn_fields, view,
          epc, exp_data, exp_colors, exp_width, exp_first_fields, exp_fields,
          amt_text, anchors, lookahead_chars, amt_pc, amt_result,
          BRANDS, veh_text, veh_pc, vehicle,
          api_key, ai_pc, requests, ai_company, ai_result

vars == <<text, readable, pc, company, result,
          prima_neta_raw, prima_total_raw, recargos_raw, derechos_raw,
          fpc, loc, fin,
          files, idx, bpc, parsed_data, origin, errors, extracted,
          detected_vehicle, header_colors, company_col_width, dyn_fields, view,
          epc, exp_data, exp_colors, exp_width, exp_first_fields, exp_fields,
          amt_text, anchors, lookahead_chars, amt_pc, amt_result,
          BRANDS, veh_text, veh_pc, vehicle,
          api_key, ai_pc, requests, ai_company, ai_result>>

docVars == <<text, readable, pc, company, result>>
finVars == <<prima_neta_raw, prima_total_raw, recargos_raw, derechos_raw, fpc, loc, fin>>
batchVars == <<files, idx, bpc, parsed_data, origin, errors, extracted,
               detected_vehicle, header_colors, company_col_width, dyn_fields, view>>
exportVars == <<epc, exp_data, exp_colors, exp_width, exp_first_fields, exp_fields>>
amtVars == <<amt_text, anchors, lookahead_chars, amt_pc, amt_result>>
vehVars == <<BRANDS, veh_text, veh_pc, vehicle>>
aiVars == <<api_key, ai_pc, requests, ai_company, ai_result>>
auxVars == <<amtVars, vehVars, aiVars>>

(***************************************************************************)
(* Bounds of the model.                                                    *)
(***************************************************************************)
\* number of words in a document text
MaxWords == 3
\* number of steps of the amount grid 0, GridStep, 2*GridStep, ...
MaxGrid == 4
\* number of files in one upload
MaxFiles == 3
\* number of pieces of a text handed to _extract_amount_after
MaxPieces == 3
\* number of words behind the label of a vehicle description
MaxVehWords == 3

(***************************************************************************)
(* Python values.                                                          *)
(***************************************************************************)
\* Python's None where a company identifier (a str) is expected
None == "None"

\* Optional[str]: None, or a string
NoneStr == [isNone |-> TRUE, s |-> <<>>]
Str(s) == [isNone |-> FALSE, s |-> s]

\* Optional[float]: None, or a number in units of 1/Scale
NoneNum == [isNone |-> TRUE, v |-> 0]
Num(v) == [isNone |-> FALSE, v |-> v]

Scale == 100 * 100

(***************************************************************************)
(* str.upper() and the `in` operator on strings.                           *)
(***************************************************************************)
LowerChars == <<"a","b","c","d","e","f","g","h","i","j","k","l","m","n","o","p","q","r","s","t","u","v","w","x","y","z","á">>
UpperChars == <<"A","B","C","D","E","F","G","H","I","J","K","L","M","N","O","P","Q","R","S","T","U","V","W","X","Y","Z","Á">>

UpperChar(c) ==
    IF \E i \in 1..Len(LowerChars) : LowerChars[i] = c
    THEN UpperChars[CHOOSE i \in 1..Len(LowerChars) : LowerChars[i] = c]
    ELSE c

Upper(s) == [i \in 1..Len(s) |-> UpperChar(s[i])]

\* sub in s
Contains(sub, s) ==
    \E i \in 1..(Len(s) - Len(sub) + 1) : SubSeq(s, i, i + Len(sub) - 1) = sub

(***************************************************************************)
(* Provider tokens tested by identify_company.                             *)
(***************************************************************************)
ATLAS == <<"A","T","L","A","S">>
SEGUROS_ATLAS == <<"S","E","G","U","R","O","S"," ","A","T","L","A","S">>
ANA == <<"A","N","A">>
HDI == <<"H","D","I">>
HDI_SEGUROS == <<"H","D","I"," ","S","E","G","U","R","O","S">>
QUALITAS == <<"Q","U","A","L","I","T","A","S">>
QUALITAS_ACC == <<"Q","U","Á","L","I","T","A","S">>

identify_company_noexcl(t) ==
    LET text_upper == Upper(t) IN
    IF Contains(ATLAS, text_upper)
    THEN "Atlas"
    ELSE IF Contains(ANA, text_upper) /\ ~Contains(HDI, text_upper)
            /\ ~Contains(ATLAS, text_upper) /\ ~Contains(QUALITAS, text_upper)
    THEN "ANA"
    ELSE IF Contains(HDI_SEGUROS, text_upper) \/ Contains(HDI, text_upper)
    THEN "HDI"
    ELSE IF Contains(QUALITAS_ACC, text_upper) \/ Contains(QUALITAS, text_upper)
    THEN "Qualitas"
    ELSE None

identify_company_swapped(t) ==
    LET text_upper == Upper(t) IN
    IF Contains(ATLAS, text_upper) /\ ~Contains(SEGUROS_ATLAS, text_upper)
    THEN "Atlas"
    ELSE IF Contains(ANA, text_upper) /\ ~Contains(HDI, text_upper)
            /\ ~Contains(ATLAS, text_upper) /\ ~Contains(QUALITAS, text_upper)
    THEN "ANA"
    ELSE IF Contains(QUALITAS_ACC, text_upper) \/ Contains(QUALITAS, text_upper)
    THEN "Qualitas"
    ELSE IF Contains(HDI_SEGUROS, text_upper) \/ Contains(HDI, text_upper)
    THEN "HDI"
    ELSE None

identify_company(t) ==
    LET text_upper == Upper(t) IN
    IF Contains(ATLAS, text_upper) /\ ~Contains(SEGUROS_ATLAS, text_upper)
    THEN "Atlas"
    ELSE IF Contains(ANA, text_upper) /\ ~Contains(HDI, text_upper)
            /\ ~Contains(ATLAS, text_upper) /\ ~Contains(QUALITAS, text_upper)
    THEN "ANA"
    ELSE IF Contains(HDI_SEGUROS, text_upper) \/ Contains(HDI, text_upper)
    THEN "HDI"
    ELSE IF Contains(QUALITAS_ACC, text_upper) \/ Contains(QUALITAS, text_upper)
    THEN "Qualitas"
    ELSE None

(***************************************************************************)
(* Document texts: up to MaxWords words joined by single spaces.           *)
(***************************************************************************)
Words == {
    <<"H","D","I">>,
    <<"S","e","g","u","r","o","s">>,
    <<"S","E","G","U","R","O","S">>,
    <<"A","t","l","a","s">>,
    <<"A","N","A">>,
    <<"Q","u","a","l","i","t","a","s">>,
    <<"Q","u","á","l","i","t","a","s">>,
    <<"p","o","l","i","c","y">> }

RECURSIVE TextsOf(_)
TextsOf(n) ==
    IF n = 0 THEN { <<>> }
    ELSE LET shorter == TextsOf(n - 1) IN
         shorter \cup { (IF t = <<>> THEN w ELSE t \o <<" ">> \o w) : t \in shorter, w \in Words }

Texts == TextsOf(MaxWords)

(***************************************************************************)
(* Currency/number utilities.                                              *)
(***************************************************************************)
Digits == <<"0","1","2","3","4","5","6","7","8","9">>

IsDigit(c) == \E i \in 1..10 : Digits[i] = c

DigitVal(c) == (CHOOSE i \in 1..10 : Digits[i] = c) - 1

RECURSIVE DigitsVal(_)
DigitsVal(ds) ==
    IF ds = <<>> THEN 0
    ELSE 10 * DigitsVal(SubSeq(ds, 1, Len(ds) - 1)) + DigitVal(ds[Len(ds)])

\* the ValueError that float(s) raises, as a value handed to the caller
ValueError == [isNone |-> FALSE, v |-> 0, exc |-> TRUE]

Raised(x) == "exc" \in DOMAIN x

\* float(s) for strings over digits, sign, '.', and characters that cannot
\* occur in a float literal: [sign] digits [. digits] with at least one
\* digit is a number, anything else raises ValueError.  (Exponent, nan, inf
\* and underscore literals are not among the strings drawn.)  The value is
\* exact for up to four decimals.
ParseFloat(s) ==
    LET signed == Len(s) > 0 /\ s[1] \in {"-", "+"}
        body == IF signed THEN Tail(s) ELSE s
        dots == { i \in 1..Len(body) : body[i] = "." }
        d == IF dots = {} THEN Len(body) + 1 ELSE CHOOSE i \in dots : TRUE
        ip == SubSeq(body, 1, d - 1)
        fp == SubSeq(body, d + 1, Len(body))
        wellFormed == /\ Cardinality(dots) <= 1
                      /\ \A i \in 1..Len(ip) : IsDigit(ip[i])
                      /\ \A i \in 1..Len(fp) : IsDigit(fp[i])
                      /\ Len(ip) + Len(fp) >= 1
        magnitude == DigitsVal(ip) * Scale
                     + DigitsVal(SubSeq(fp \o <<"0","0","0","0">>, 1, 4))
    IN IF ~wellFormed THEN ValueError
       ELSE Num(IF signed /\ s[1] = "-" THEN 0 - magnitude ELSE magnitude)

\* str.strip(): leading and trailing blanks removed
RECURSIVE Strip(_)
Strip(s) ==
    IF s # <<>> /\ s[1] = " " THEN Strip(Tail(s))
    ELSE IF s # <<>> /\ s[Len(s)] = " " THEN Strip(SubSeq(s, 1, Len(s) - 1))
    ELSE s

KeepChar(c) == c \notin {"$", ",", " "}

_to_number_nocatch(amount) ==
    IF amount.isNone \/ amount.s = <<>> THEN NoneNum
    ELSE ParseFloat(SelectSeq(Strip(amount.s), KeepChar))

\* the try block around float(s): an exception yields None
_to_number(amount) ==
    IF amount.isNone \/ amount.s = <<>> THEN NoneNum
    ELSE LET parsed == ParseFloat(SelectSeq(Strip(amount.s), KeepChar))
         IN IF Raised(parsed) THEN NoneNum ELSE parsed

RECURSIVE NatChars(_)
NatChars(n) ==
    IF n < 10 THEN <<Digits[n + 1]>>
    ELSE NatChars(n \div 10) \o <<Digits[(n % 10) + 1]>>

Pad3(n) == <<Digits[(n \div 100) + 1], Digits[((n \div 10) % 10) + 1], Digits[(n % 10) + 1]>>

RECURSIVE Grouped(_)
Grouped(n) ==
    IF n < 1000 THEN NatChars(n)
    ELSE Grouped(n \div 1000) \o <<",">> \o Pad3(n % 1000)

\* round to two decimals (units of 1/Scale to cents); an exact tie goes to
\* the even cent
RoundCents(a) ==
    LET q == a \div 100
        r == a % 100
    IN IF r > 50 \/ (r = 50 /\ q % 2 = 1) THEN q + 1 ELSE q

\* f"{value:,.2f}"
_format_currency(value) ==
    LET a == IF value < 0 THEN 0 - value ELSE value
        cents == RoundCents(a)
    IN (IF value < 0 THEN <<"-">> ELSE <<>>)
       \o Grouped(cents \div 100) \o <<".">>
       \o <<Digits[((cents % 100) \div 10) + 1], Digits[(cents % 10) + 1]>>

(***************************************************************************)
(* _compute_financials.                                                    *)
(***************************************************************************)
recargos_cap == 2000
min_total_threshold == 1000

NA == <<"N","/","A">>
DollarZero == <<"$"," ","0">>
Dollar(s) == <<"$">> \o s

\* x or 0.0
OrZero(x) == IF x.isNone \/ x.v = 0 THEN 0 ELSE x.v

chosen_neta_atleast(pn_raw, pt_raw) ==
    LET prima_neta_num == _to_number(pn_raw)
        prima_total_num == _to_number(pt_raw)
    IN IF ~prima_neta_num.isNone /\ prima_neta_num.v >= min_total_threshold * Scale
       THEN prima_neta_num.v
       ELSE IF ~prima_total_num.isNone /\ prima_total_num.v >= min_total_threshold * Scale
       THEN prima_total_num.v
       ELSE 0

chosen_neta(pn_raw, pt_raw) ==
    LET prima_neta_num == _to_number(pn_raw)
        prima_total_num == _to_number(pt_raw)
    IN IF ~prima_neta_num.isNone /\ prima_neta_num.v > min_total_threshold * Scale
       THEN prima_neta_num.v
       ELSE IF ~prima_total_num.isNone /\ prima_total_num.v > min_total_threshold * Scale
       THEN prima_total_num.v
       ELSE 0

rec_num_atleast(rec_raw) ==
    LET parsed == OrZero(_to_number(rec_raw))
    IN IF parsed >= recargos_cap * Scale THEN 0 ELSE parsed

rec_num(rec_raw) ==
    LET parsed == OrZero(_to_number(rec_raw))
    IN IF parsed > recargos_cap * Scale THEN 0 ELSE parsed

der_num(der_raw) == OrZero(_to_number(der_raw))

iva_num_15(neta, rec, der) ==
    LET sum == neta + rec + der
    IN (sum \div 100) * 15 + ((sum % 100) * 15) \div 100

\* (chosen_neta + rec_num + der_num) * 0.16, i.e. sum * 16 / 100, split so
\* that the product stays within 32-bit integers; exact for sums of
\* two-decimal amounts
iva_num(neta, rec, der) ==
    LET sum == neta + rec + der
    IN (sum \div 100) * 16 + ((sum % 100) * 16) \div 100

total_num_noiva(neta, rec, der, iva) == neta + rec + der

total_num(neta, rec, der, iva) == neta + rec + der + iva

FinLocals(pn_raw, pt_raw, rec_raw, der_raw) ==
    LET neta == chosen_neta(pn_raw, pt_raw)
        rec == rec_num(rec_raw)
        der == der_num(der_raw)
        iva == iva_num(neta, rec, der)
    IN [chosen_neta |-> neta, rec_num |-> rec, der_num |-> der,
        iva_num |-> iva, total_num |-> total_num(neta, rec, der, iva)]

FinKeys == {"Prima Neta", "Recargos", "Derechos de Póliza", "IVA", "Prima Total"}

FinResult_nonneg(l) ==
    [k \in FinKeys |->
        CASE k = "Prima Neta" ->
                IF l.chosen_neta >= 0 THEN Dollar(_format_currency(l.chosen_neta)) ELSE NA
          [] k = "Recargos" ->
                IF l.rec_num > 0 THEN Dollar(_format_currency(l.rec_num)) ELSE DollarZero
          [] k = "Derechos de Póliza" ->
                IF l.der_num >= 0 THEN Dollar(_format_currency(l.der_num)) ELSE NA
          [] k = "IVA" -> Dollar(_format_currency(l.iva_num))
          [] k = "Prima Total" ->
                IF l.total_num >= 0 THEN Dollar(_format_currency(l.total_num)) ELSE NA]

FinResult_recNA(l) ==
    [k \in FinKeys |->
        CASE k = "Prima Neta" ->
                IF l.chosen_neta > 0 THEN Dollar(_format_currency(l.chosen_neta)) ELSE NA
          [] k = "Recargos" ->
                IF l.rec_num > 0 THEN Dollar(_format_currency(l.rec_num)) ELSE NA
          [] k = "Derechos de Póliza" ->
                IF l.der_num > 0 THEN Dollar(_format_currency(l.der_num)) ELSE NA
          [] k = "IVA" -> Dollar(_format_currency(l.iva_num))
          [] k = "Prima Total" ->
                IF l.total_num > 0 THEN Dollar(_format_currency(l.total_num)) ELSE NA]

FinResult(l) ==
    [k \in FinKeys |->
        CASE k = "Prima Neta" ->
                IF l.chosen_neta > 0 THEN Dollar(_format_currency(l.chosen_neta)) ELSE NA
          [] k = "Recargos" ->
                IF l.rec_num > 0 THEN Dollar(_format_currency(l.rec_num)) ELSE DollarZero
          [] k = "Derechos de Póliza" ->
                IF l.der_num > 0 THEN Dollar(_format_currency(l.der_num)) ELSE NA
          [] k = "IVA" -> Dollar(_format_currency(l.iva_num))
          [] k = "Prima Total" ->
                IF l.total_num > 0 THEN Dollar(_format_currency(l.total_num)) ELSE NA]

_compute_financials(pn_raw, pt_raw, rec_raw, der_raw) ==
    FinResult(FinLocals(pn_raw, pt_raw, rec_raw, der_raw))

(***************************************************************************)
(* Raw financial inputs: what _extract_amount_after hands over, i.e. None  *)
(* or a currency-shaped token (digit groups, optional two decimals); some  *)
(* with a leading currency symbol as in the documents.                     *)
(***************************************************************************)
GridStep == 500 * 100 + 50

GridCents == { k * GridStep : k \in 0..MaxGrid }

\* the token a document prints for an amount of c cents
AmountToken(c) ==
    Grouped(c \div 100) \o <<".">> \o <<Digits[((c % 100) \div 10) + 1], Digits[(c % 10) + 1]>>

\* the token of a whole amount printed without decimals
WholeToken(c) == Grouped(c \div 100)

NetRaws ==
    {NoneStr} \cup { Str(AmountToken(c)) : c \in GridCents \cup {99999, 100000, 100001} }
              \cup { Str(<<"$">> \o AmountToken(1234567)) }

TotalRaws ==
    {NoneStr} \cup { Str(AmountToken(c)) : c \in GridCents } \cup { Str(WholeToken(1500000)) }

RecRaws ==
    {NoneStr} \cup { Str(AmountToken(c)) : c \in GridCents \cup {10000, 200000, 200001} }
              \cup { Str(<<"$">> \o AmountToken(500000)) }

DerRaws ==
    {NoneStr, Str(AmountToken(0)), Str(AmountToken(5000)), Str(<<"$"," ">> \o AmountToken(65000))}

NoLocals == [chosen_neta |-> 0, rec_num |-> 0, der_num |-> 0, iva_num |-> 0, total_num |-> 0]
NoFin == [k \in FinKeys |-> <<>>]

(***************************************************************************)
(* Documents.  A document is what one uploaded file holds: the kind of its *)
(* file name, whether it can be read and opened, its text as far as the    *)
(* classifier looks at it, and what each extraction rule captures from it  *)
(* (None where the rule's anchor or pattern does not match).               *)
(***************************************************************************)
CONTADO == <<"C","O","N","T","A","D","O">>
AMPARADA == <<"A","M","P","A","R","A","D","A">>

BareContent ==
    [vehicle_name |-> <<>>,
     prima_total |-> NoneStr, prima_neta |-> NoneStr,
     recargos |-> NoneStr, derechos |-> NoneStr,
     fp |-> NoneStr, dm |-> NoneStr, rt |-> NoneStr, rc |-> NoneStr,
     gmo |-> NoneStr, al_status |-> NoneStr, al_amount |-> NoneStr,
     av_status |-> NoneStr, ac |-> NoneStr, rcc |-> NoneStr, dam |-> NoneStr]

FullContent ==
    [vehicle_name |-> <<"V","W"," ","J","E","T","T","A">>,
     prima_total |-> Str(AmountToken(1449498)), prima_neta |-> Str(AmountToken(1234567)),
     recargos |-> Str(AmountToken(10000)), derechos |-> Str(AmountToken(5000)),
     fp |-> Str(<<"M","E","N","S","U","A","L"," ">>),
     dm |-> Str(AmountToken(61600000)), rt |-> Str(AmountToken(61600000)),
     rc |-> Str(WholeToken(300000000)), gmo |-> Str(WholeToken(20000000)),
     al_status |-> Str(<<"A","m","p","a","r","a","d","a">>),
     al_amount |-> Str(WholeToken(2500000)),
     av_status |-> Str(<<"N","o"," ","A","m","p","a","r","a","d","a">>),
     ac |-> Str(WholeToken(5000000)), rcc |-> Str(WholeToken(200000000)),
     dam |-> Str(WholeToken(1000000))]

\* a document carries the name of its content
Contents == {"bare", "full"}

ContentOf(c) == IF c = "full" THEN FullContent ELSE BareContent

T_HDI == <<"H","D","I"," ","S","e","g","u","r","o","s">>
T_QUALITAS == <<"Q","u","á","l","i","t","a","s">>
T_ANA == <<"A","N","A"," ","S","e","g","u","r","o","s">>
T_ATLAS == <<"A","t","l","a","s">>
T_SEGUROS_ATLAS == <<"S","e","g","u","r","o","s"," ","A","t","l","a","s">>

PdfDoc(t, c) == [filename |-> "pdf", read |-> "ok", text |-> t, content |-> c]

\* the uploads: pdf files of the four providers with and without the labels
\* the rules look for, a pdf no rule classifies, a pdf that cannot be opened,
\* a pdf whose upload stream cannot be read, a file of another type and an
\* empty file name
Docs ==
    { PdfDoc(t, c) : t \in {T_HDI, T_QUALITAS, T_ANA, T_ATLAS}, c \in Contents }
    \cup { PdfDoc(T_SEGUROS_ATLAS, "bare"),
           [filename |-> "pdf", read |-> "corrupt", text |-> T_HDI, content |-> "bare"],
           [filename |-> "pdf", read |-> "ioerror", text |-> T_HDI, content |-> "bare"],
           [filename |-> "other", read |-> "ok", text |-> T_HDI, content |-> "bare"],
           [filename |-> "empty", read |-> "ok", text |-> <<>>, content |-> "bare"] }

\* the lists of at most n elements of S
SeqsUpTo(S, n) == UNION { [1..k -> S] : k \in 0..n }

(***************************************************************************)
(* The four extractors.                                                    *)
(***************************************************************************)
DisplayName(c) ==
    CASE c = "HDI" -> <<"H","D","I"," ","S","e","g","u","r","o","s">>
      [] c = "Qualitas" -> <<"Q","u","a","l","i","t","a","s">>
      [] c = "ANA" -> <<"A","N","A"," ","S","e","g","u","r","o","s">>
      [] c = "Atlas" -> <<"S","e","g","u","r","o","s"," ","A","t","l","a","s">>

\* f"${m.group(1)}" if m else "N/A"
OptDollar(x) == IF x.isNone THEN NA ELSE Dollar(x.s)

\* m.group(1) if m else "N/A"
OptPlain(x) == IF x.isNone THEN NA ELSE x.s

\* fin = _compute_financials(prima_neta, prima_total, recargos, derechos) on
\* the four amounts the extractor captured; every extractor computes it and
\* merges it into its result (result.update(fin)), below it is the second
\* argument of the extractor
Financials(c) == _compute_financials(c.prima_neta, c.prima_total, c.recargos, c.derechos)

\* group(1) of the two HDI patterns whose parentheses are not escaped: the
\* label text between them, not the amount behind it
HDI_RC_GROUP ==
    <<"L","í","m","i","t","e"," ","Ú","n","i","c","o"," ","y"," ","C","o","m","b","i","n","a","d","o">>
HDI_GMO_GROUP ==
    <<"L","í","m","i","t","e"," ","Ú","n","i","c","o"," ","C","o","m","b","i","n","a","d","o">>

parse_hdi(c, f) ==
    ("company" :> DisplayName("HDI")) @@ ("vehicle_name" :> c.vehicle_name)
    @@ f
    @@ ("Forma de Pago" :> CONTADO)
    @@ ("Daños Materiales" :> OptDollar(c.dm))
    @@ ("Robo Total" :> OptDollar(c.rt))
    @@ ("Responsabilidad Civil" :> IF c.rc.isNone THEN NA ELSE Dollar(HDI_RC_GROUP))
    @@ ("Gastos Medicos Ocupantes" :> IF c.gmo.isNone THEN NA ELSE Dollar(HDI_GMO_GROUP))
    @@ ("Asistencia Legal" :> OptPlain(c.al_status))
    @@ ("Asistencia Viajes" :> OptPlain(c.av_status))
    @@ ("Accidente al conductor" :> OptDollar(c.ac))
    @@ ("Responsabilidad civil catastrofica" :> OptPlain(c.rcc))
    @@ ("Desbielamiento por agua al motor" :> NA)

parse_qualitas(c, f) ==
    ("company" :> DisplayName("Qualitas")) @@ ("vehicle_name" :> c.vehicle_name)
    @@ f
    @@ ("Forma de Pago" :> CONTADO)
    @@ ("Daños Materiales" :> OptDollar(c.dm))
    @@ ("Robo Total" :> OptDollar(c.rt))
    @@ ("Responsabilidad Civil" :> OptDollar(c.rc))
    @@ ("Gastos Medicos Ocupantes" :> OptDollar(c.gmo))
    @@ ("Asistencia Legal" :> OptPlain(c.al_status))
    @@ ("Asistencia Viajes" :> OptPlain(c.av_status))
    @@ ("Accidente al conductor" :> OptDollar(c.ac))
    @@ ("Responsabilidad civil catastrofica" :> OptDollar(c.rcc))
    @@ ("Desbielamiento por agua al motor" :> NA)

parse_ana(c, f) ==
    ("company" :> DisplayName("ANA")) @@ ("vehicle_name" :> c.vehicle_name)
    @@ f
    @@ ("Forma de Pago" :> IF c.fp.isNone THEN NA ELSE Strip(c.fp.s))
    @@ ("Daños Materiales" :> OptDollar(c.dm))
    @@ ("Robo Total" :> OptDollar(c.rt))
    @@ ("Responsabilidad Civil" :> OptDollar(c.rc))
    @@ ("Gastos Medicos Ocupantes" :> OptDollar(c.gmo))
    @@ ("Asistencia Legal" :> OptDollar(c.al_amount))
    @@ ("Asistencia Viajes" :> AMPARADA)
    @@ ("Accidente al conductor" :> OptDollar(c.ac))
    @@ ("Responsabilidad civil catastrofica" :> OptDollar(c.rcc))
    @@ ("Desbielamiento por agua al motor" :> OptDollar(c.dam))

parse_atlas(c, f) ==
    ("company" :> DisplayName("Atlas")) @@ ("vehicle_name" :> c.vehicle_name)
    @@ f
    @@ ("Forma de Pago" :> IF c.fp.isNone THEN CONTADO ELSE Strip(c.fp.s))
    @@ ("Daños Materiales" :> OptDollar(c.dm))
    @@ ("Robo Total" :> OptDollar(c.rt))
    @@ ("Responsabilidad Civil" :> OptDollar(c.rc))
    @@ ("Gastos Medicos Ocupantes" :> OptDollar(c.gmo))
    @@ ("Asistencia Legal" :> OptDollar(c.al_amount))
    @@ ("Asistencia Viajes" :> AMPARADA)
    @@ ("Accidente al conductor" :> OptDollar(c.ac))
    @@ ("Responsabilidad civil catastrofica" :> OptDollar(c.rcc))
    @@ ("Desbielamiento por agua al motor" :> NA)

(***************************************************************************)
(* parse_pdf: text extraction, classification and dispatch to the          *)
(* provider's extractor.                                                   *)
(***************************************************************************)
NoRecord == [isNone |-> TRUE, company |-> <<>>, row |-> <<>>]

\* the dispatch on the company identifier
Dispatch(co, c, f) ==
    CASE co = "HDI" -> parse_hdi(c, f)
      [] co = "Qualitas" -> parse_qualitas(c, f)
      [] co = "ANA" -> parse_ana(c, f)
      [] co = "Atlas" -> parse_atlas(c, f)

Parsed(co, row) ==
    IF co = None THEN NoRecord
    ELSE [isNone |-> FALSE, company |-> DisplayName(co), row |-> row]

parse_pdf(ok, t, c) ==
    IF ~ok THEN NoRecord
    ELSE Parsed(identify_company(t),
                IF identify_company(t) = None THEN <<>>
                ELSE Dispatch(identify_company(t), c, Financials(c)))

(***************************************************************************)
(* _extract_amount_after: the amount behind the first anchor whose window  *)
(* holds a currency-shaped token.                                          *)
(***************************************************************************)
lookahead_default == 250

\* re.search(sub, s) for a literal sub: the position of the first
\* occurrence, 0 if there is none
Find(sub, s) ==
    LET hits == { i \in 1..(Len(s) - Len(sub) + 1) : SubSeq(s, i, i + Len(sub) - 1) = sub }
    IN IF hits = {} THEN 0 ELSE CHOOSE i \in hits : \A j \in hits : i <= j

IsDigitAt(w, i) == i >= 1 /\ i <= Len(w) /\ IsDigit(w[i])

\* [0-9]{1,3} at position d: the end of the longest run of one to three
\* digits
LeadEnd(w, d) ==
    IF IsDigitAt(w, d + 1) /\ IsDigitAt(w, d + 2) THEN d + 2
    ELSE IF IsDigitAt(w, d + 1) THEN d + 1
    ELSE d

\* (?:,[0-9]{3})* behind position e: the end after as many groups as follow
RECURSIVE GroupsEnd(_, _)
GroupsEnd(w, e) ==
    IF e + 4 <= Len(w) /\ w[e + 1] = ","
       /\ IsDigitAt(w, e + 2) /\ IsDigitAt(w, e + 3) /\ IsDigitAt(w, e + 4)
    THEN GroupsEnd(w, e + 4)
    ELSE e

\* (?:\.[0-9]{2})? behind position e
DecimalsEnd(w, e) ==
    IF e + 3 <= Len(w) /\ w[e + 1] = "." /\ IsDigitAt(w, e + 2) /\ IsDigitAt(w, e + 3)
    THEN e + 3
    ELSE e

\* re.search(r'\$?\s*([0-9]{1,3}(?:,[0-9]{3})*(?:\.[0-9]{2})?)', window):
\* group 1 of the leftmost match starts at the first digit of the window
Token(w) ==
    LET digits == { i \in 1..Len(w) : IsDigit(w[i]) }
        d == CHOOSE i \in digits : \A j \in digits : i <= j
    IN IF digits = {} THEN NoneStr
       ELSE Str(SubSeq(w, d, DecimalsEnd(w, GroupsEnd(w, LeadEnd(w, d)))))

\* upper[start:start + lookahead_chars], start = m.end()
Window(upper, end, look) ==
    SubSeq(upper, end + 1, IF end + look < Len(upper) THEN end + look ELSE Len(upper))

\* the anchors from the k-th on, without a window behind the anchor: the
\* token is looked for in the rest of the text
RECURSIVE AnchorsFrom_rest(_, _, _, _)
AnchorsFrom_rest(upper, as, k, look) ==
    IF k > Len(as) THEN NoneStr
    ELSE IF Find(Upper(as[k]), upper) = 0
    THEN AnchorsFrom_rest(upper, as, k + 1, look)
    ELSE IF Token(Window(upper, Find(Upper(as[k]), upper) + Len(as[k]) - 1, Len(upper))).isNone
    THEN AnchorsFrom_rest(upper, as, k + 1, look)
    ELSE Token(Window(upper, Find(Upper(as[k]), upper) + Len(as[k]) - 1, Len(upper)))

\* the loop over the anchors from the k-th on
RECURSIVE AnchorsFrom(_, _, _, _)
AnchorsFrom(upper, as, k, look) ==
    IF k > Len(as) THEN NoneStr
    ELSE IF Find(Upper(as[k]), upper) = 0
    THEN AnchorsFrom(upper, as, k + 1, look)
    ELSE IF Token(Window(upper, Find(Upper(as[k]), upper) + Len(as[k]) - 1, look)).isNone
    THEN AnchorsFrom(upper, as, k + 1, look)
    ELSE Token(Window(upper, Find(Upper(as[k]), upper) + Len(as[k]) - 1, look))

_extract_amount_after(t, as, look) == AnchorsFrom(Upper(t), as, 1, look)

\* the pieces texts are made of: labels in both cases, amounts with and
\* without symbol, separators and decimals, and other words
Pieces ==
    { <<"P","r","i","m","a"," ","T","o","t","a","l">>,
      <<"t","o","t","a","l",":">>,
      <<"R","e","c","a","r","g","o","s">>,
      <<"1",",","2","3","4",".","5","0">>,
      <<"$"," ","9","9">>,
      <<"a","b","c">>,
      <<"1","2","3","4","5",".","6">> }

RECURSIVE Joined(_)
Joined(ps) ==
    IF ps = <<>> THEN <<>>
    ELSE IF Len(ps) = 1 THEN ps[1]
    ELSE ps[1] \o <<" ">> \o Joined(Tail(ps))

AmtTexts == { Joined(ps) : ps \in SeqsUpTo(Pieces, MaxPieces) }

\* the anchor lists of prima_total (parse_ana), prima_neta and recargos
AnchorLists ==
    { << <<"P","R","I","M","A"," ","T","O","T","A","L">>, <<"T","O","T","A","L">> >>,
      << <<"P","R","I","M","A"," ","N","E","T","A">>, <<"P","r","i","m","a"," ","N","e","t","a">> >>,
      << <<"R","e","c","a","r","g","o","s">> >> }

\* the default of the parameter, and a short window
Lookaheads == {lookahead_default, 5}

(***************************************************************************)
(* extract_vehicle: the vehicle descriptor behind a brand or a label,      *)
(* without the noise tokens.                                               *)
(***************************************************************************)
Capitals ==
    {"A","B","C","D","E","F","G","H","I","J","K","L","M",
     "N","O","P","Q","R","S","T","U","V","W","X","Y","Z"}

\* [A-Z0-9]
AlNum == Capitals \cup {"0","1","2","3","4","5","6","7","8","9"}

\* [A-Z0-9\- ] and [A-Z0-9 ,\-]
BrandClass == AlNum \cup {"-", " "}
LabelClass == AlNum \cup {" ", ",", "-"}

\* the number of characters of the set in a row from position p on
RunOf(u, p, set) ==
    LET stops == { i \in p..Len(u) : u[i] \notin set }
    IN IF stops = {} THEN Len(u) + 1 - p
       ELSE (CHOOSE i \in stops : \A j \in stops : i <= j) - p

AtMost(n, most) == IF n > most THEN most ELSE n

Largest(S) == CHOOSE p \in S : \A q \in S : q <= p

Smallest(S) == CHOOSE p \in S : \A q \in S : p <= q

\* str.replace('\n', ' ')
NoNewlines(u) == [i \in 1..Len(u) |-> IF u[i] = "\n" THEN " " ELSE u[i]]

StartsWith(s, pre) == Len(s) >= Len(pre) /\ SubSeq(s, 1, Len(pre)) = pre

EndsWith(s, suf) == Len(s) >= Len(suf) /\ SubSeq(s, Len(s) - Len(suf) + 1, Len(s)) = suf

\* a brand of the list starts at position i
BrandAt(u, bs, i) ==
    \E k \in 1..Len(bs) : StartsWith(SubSeq(u, i, Len(u)), bs[k])

\* the first brand of the alternation that matches at position i
BrandLen(u, bs, i) ==
    Len(bs[Smallest({ k \in 1..Len(bs) : StartsWith(SubSeq(u, i, Len(u)), bs[k]) })])

\* brand, \s+, [A-Z0-9] and [A-Z0-9\- ]{2,60} at position i: the end of the
\* match, 0 if there is none
BrandMatchEnd(u, bs, i) ==
    IF ~BrandAt(u, bs, i) THEN 0
    ELSE LET e == i + BrandLen(u, bs, i) - 1
             a == RunOf(u, e + 1, {" "})
             p == e + a + 1
         IN IF a >= 1 /\ p <= Len(u) /\ u[p] \in AlNum /\ RunOf(u, p + 1, BrandClass) >= 2
            THEN p + AtMost(RunOf(u, p + 1, BrandClass), 60)
            ELSE 0

\* re.search of the brand pattern: m.group(0) of the leftmost match
BrandSearch(u, bs) ==
    LET at == { i \in 1..Len(u) : BrandMatchEnd(u, bs, i) > 0 }
    IN IF at = {} THEN NoneStr
       ELSE Str(SubSeq(u, Smallest(at), BrandMatchEnd(u, bs, Smallest(at))))

DESCRIPCION == <<"D","E","S","C","R","I","P","C","I","O","N"," ","D","E","L"," ","V","E","H","I","C","U","L","O"," ","A","S","E","G","U","R","A","D","O">>

\* VEH[ÍI]CULO
VehiculoAt(u, i) ==
    /\ i + 7 <= Len(u)
    /\ SubSeq(u, i, i + 2) = <<"V","E","H">>
    /\ u[i + 3] \in {"Í", "I"}
    /\ SubSeq(u, i + 4, i + 7) = <<"C","U","L","O">>

\* \s+ behind position e and a group of one character or more: the starts
\* of the group the backtracking can reach
DescripcionStarts(u, e) ==
    { p \in (e + 2)..(e + RunOf(u, e + 1, {" "}) + 1) : RunOf(u, p, LabelClass) >= 1 }

\* \s*[:]*\s* behind position e and a group of three characters or more
VehiculoStarts(u, e) ==
    LET a == RunOf(u, e + 1, {" "})
        c == RunOf(u, e + a + 1, {":"})
        b == RunOf(u, e + a + c + 1, {" "})
    IN { p \in (e + 1)..(e + a + c + b + 1) : RunOf(u, p, LabelClass) >= 3 }

\* re.search of the pattern of DESCRIPCION DEL VEHICULO ASEGURADO: m.group(1)
DescripcionSearch(u) ==
    LET at == { i \in 1..Len(u) :
                  /\ StartsWith(SubSeq(u, i, Len(u)), DESCRIPCION)
                  /\ DescripcionStarts(u, i + Len(DESCRIPCION) - 1) # {} }
        p == Largest(DescripcionStarts(u, Smallest(at) + Len(DESCRIPCION) - 1))
    IN IF at = {} THEN NoneStr
       ELSE Str(SubSeq(u, p, p + RunOf(u, p, LabelClass) - 1))

\* re.search of the pattern of VEHICULO: m.group(1)
VehiculoSearch(u) ==
    LET at == { i \in 1..Len(u) : VehiculoAt(u, i) /\ VehiculoStarts(u, i + 7) # {} }
        p == Largest(VehiculoStarts(u, Smallest(at) + 7))
    IN IF at = {} THEN NoneStr
       ELSE Str(SubSeq(u, p, p + AtMost(RunOf(u, p, LabelClass), 60) - 1))

\* the candidate of the first pattern that matches, '' if none does
Candidate(u, bs) ==
    IF bs # <<>> /\ ~BrandSearch(u, bs).isNone THEN BrandSearch(u, bs).s
    ELSE IF ~DescripcionSearch(u).isNone THEN DescripcionSearch(u).s
    ELSE IF ~VehiculoSearch(u).isNone THEN VehiculoSearch(u).s
    ELSE <<>>

noise_tokens ==
    << <<"A","U","T","O","M","O","V","I","L","E","S"," ","N","A","C","I","O","N","A","L","E","S">>,
       <<"A","U","T","O","M","O","V","I","L","E","S">>,
       <<"P","A","R","T","I","C","U","L","A","R">>,
       <<"N","O","R","M","A","L">>,
       <<"S","E","R","V","I","C","I","O">>,
       <<"D","E","S","C","R","I","P","C","I","O","N"," ","D","E","L"," ","V","E","H","I","C","U","L","O"," ","A","S","E","G","U","R","A","D","O">>,
       <<"D","E","S","C">>,
       <<"A","M","P","L","I","A">>,
       <<"P","L","A","N">>,
       <<"U","S","O">>,
       <<"L","4">>,
       <<"T","S","I">>,
       <<"A","B","S">>,
       <<"B","A">>,
       <<"A","C">>,
       <<"A","U","T">>,
       <<"A","U","T","O">>,
       <<"5"," ","O","C","U","P">>,
       <<"5","P">>,
       <<"5","P","T","A","S">>,
       <<"1",".","4","T">>,
       <<"2",".","0","T">>,
       <<"C","V","T">>,
       <<"T","I","P","T","R","O","N","I","C">>,
       <<"A","T">>,
       <<"M","T">>,
       <<"S","U","M","A"," ","A","S","E","G","U","R","A","D","A">>,
       <<"S","U","M">>,
       <<"R","I","E","S","G","O","S">> >>

\* str.replace(old, new): the occurrences from the left that do not overlap
\* the pieces lo..hi of a sequence of strings, one behind the other
RECURSIVE Flat(_, _, _)
Flat(ps, lo, hi) ==
    IF lo > hi THEN <<>>
    ELSE IF lo = hi THEN ps[lo]
    ELSE Flat(ps, lo, (lo + hi) \div 2) \o Flat(ps, (lo + hi) \div 2 + 1, hi)

\* the starts of the occurrences of old in s from position from on, each
\* behind the end of the one before
RECURSIVE Occurrences(_, _, _)
Occurrences(s, old, from) ==
    LET at == { i \in from..(Len(s) - Len(old) + 1) : SubSeq(s, i, i + Len(old) - 1) = old }
    IN IF at = {} THEN {}
       ELSE {Smallest(at)} \cup Occurrences(s, old, Smallest(at) + Len(old))

\* str.replace(old, new): the occurrences from the left that do not overlap
ReplaceAt(s, old, new, starts) ==
    Flat([i \in 1..Len(s) |->
             IF i \in starts THEN new
             ELSE IF \E j \in starts : j < i /\ i < j + Len(old) THEN <<>>
             ELSE <<s[i]>>], 1, Len(s))

Replace(s, old, new) ==
    CHOOSE r \in { ReplaceAt(s, old, new, starts) : starts \in {Occurrences(s, old, 1)} } : TRUE

\* candidate.replace('VW ', 'VOLKSWAGEN ', 1) of a candidate that starts
\* with 'VW '
ExpandVW(c) ==
    IF StartsWith(c, <<"V","W"," ">>)
    THEN <<"V","O","L","K","S","W","A","G","E","N"," ">> \o SubSeq(c, 4, Len(c))
    ELSE c

\* candidate[:-(len(t)+1)] of a candidate that ends with ' ' + t
CutEnd(c, t) ==
    IF EndsWith(c, <<" ">> \o t) THEN SubSeq(c, 1, Len(c) - (Len(t) + 1)) ELSE c

\* one turn of the loop over the noise tokens
RemoveToken(c, t) ==
    CHOOSE r \in { CutEnd(d, t) : d \in {Replace(c, <<" ">> \o t \o <<" ">>, <<" ">>)} } : TRUE

\* the loop over the noise tokens from the k-th on
RECURSIVE RemoveNoise(_, _)
RemoveNoise(c, k) ==
    IF k > Len(noise_tokens) THEN c
    ELSE CHOOSE r \in { RemoveNoise(d, k + 1) : d \in {RemoveToken(c, noise_tokens[k])} } : TRUE

\* ' '.join(candidate.split())
SingleSpaces(c) ==
    Flat([i \in 1..Len(c) |->
             IF c[i] = " " /\ i < Len(c) /\ c[i + 1] = " " THEN <<>> ELSE <<c[i]>>], 1, Len(c))

Collapse(c) == SingleSpaces(Strip(c))

Cleaned(c) ==
    IF c = <<>> THEN <<>>
    ELSE Collapse(RemoveNoise(ExpandVW(Strip(c)), 1))

extract_vehicle(t, bs) ==
    CHOOSE r \in { Cleaned(c) : c \in {Candidate(NoNewlines(Upper(t)), bs)} } : TRUE

\* what stands before the description: a label of either pattern or none
VehLabels ==
    { <<"V","e","h","i","c","u","l","o",":"," ">>,
      <<"D","e","s","c","r","i","p","c","i","o","n"," ","d","e","l"," ","v","e","h","i","c","u","l","o"," ","a","s","e","g","u","r","a","d","o"," ">>,
      <<"M","o","d","e","l","o"," ">> }

\* the words of a description: a brand and its abbreviation, noise tokens,
\* a model year, and nothing (two spaces in a row)
VehWords ==
    { <<"V","W">>, <<"J","e","t","t","a">>, <<"A","U","T">>, <<"A","C">>, <<"A","u","t","o">>, <<"2","0","2","4">>, <<>> }

\* what stands behind the description
VehEnds ==
    { <<>>, <<"."," ","U","s","o">>, <<"\n","U","s","o">>, <<"\n","2","0","2","4">> }

VehTexts ==
    { l \o Joined(ws) \o e : l \in VehLabels, ws \in SeqsUpTo(VehWords, MaxVehWords), e \in VehEnds }

\* brands.json is absent or lists brands
BrandLists == { <<>>, << <<"V","W">>, <<"S","E","A","T">> >> }

VehIdle ==
    /\ BRANDS = <<>> /\ veh_text = <<>> /\ veh_pc = "idle" /\ vehicle = <<>>

(***************************************************************************)
(* parse_pdf_ai: the remote backend, a classification request and an       *)
(* extraction request.                                                     *)
(***************************************************************************)
classify_timeout == 60
extraction_timeout == 90

LowerChar(c) ==
    IF \E i \in 1..Len(UpperChars) : UpperChars[i] = c
    THEN LowerChars[CHOOSE i \in 1..Len(UpperChars) : UpperChars[i] = c]
    ELSE c

\* str.capitalize()
Capitalize(v) ==
    [i \in 1..Len(v) |-> IF i = 1 THEN UpperChar(v[i]) ELSE LowerChar(v[i])]

\* format_currency behind the first two tests, for the stripped value and
\* what float() makes of it without '$', ',' and ' '
FormatParsed(vs, parsed) ==
    IF Raised(parsed)
    THEN IF Upper(vs) = AMPARADA THEN <<"A","m","p","a","r","a","d","a">>
         ELSE IF Upper(vs) = <<"N","O"," ","A","M","P","A","R","A","D","A">> THEN <<"N","o"," ","A","m","p","a","r","a","d","a">>
         ELSE Capitalize(vs)
    ELSE Dollar(_format_currency(parsed.v))

format_currency(value) ==
    IF value.isNone \/ value.s = <<>> THEN NA
    ELSE IF Strip(value.s) = <<>> \/ Upper(Strip(value.s)) = NA THEN NA
    ELSE FormatParsed(Strip(value.s), ParseFloat(SelectSeq(Strip(value.s), KeepChar)))

\* dict.get(key) and dict.get(key, default)
SchemaGet(d, k) == IF k \in DOMAIN d THEN Str(d[k]) ELSE NoneStr

SchemaGetOr(d, k, dflt) == IF k \in DOMAIN d THEN d[k] ELSE dflt

\* the fields of a record of the backend behind company and vehicle_name
AI_FIELDS ==
    { "Prima Neta", "Recargos", "Derechos de Póliza", "IVA", "Prima Total",
      "Forma de Pago", "Daños Materiales", "Robo Total", "Responsabilidad Civil",
      "Gastos Medicos Ocupantes", "Asistencia Legal", "Asistencia Viajes",
      "Responsabilidad civil catastrofica", "Desbielamiento por agua al motor" }

Currency(k) == [kind |-> "currency", key |-> k, value |-> <<>>]
Plain(k, dflt) == [kind |-> "plain", key |-> k, value |-> dflt]
Fixed(v) == [kind |-> "fixed", key |-> "", value |-> v]

\* the right-hand side of result[field] in extract_<company>_ai
Mapping(co, field) ==
    CASE field = "Prima Neta" -> Currency("Prima_Neta")
      [] field = "Recargos" -> Currency("Recargos")
      [] field = "Derechos de Póliza" -> Currency("Derechos")
      [] field = "IVA" -> Currency("IVA")
      [] field = "Prima Total" -> Currency("Prima_Total")
      [] field = "Forma de Pago" ->
            IF co = "ANA" THEN Plain("Forma_Pago", NA)
            ELSE IF co = "Atlas" THEN Plain("Forma_Pago", CONTADO)
            ELSE Fixed(CONTADO)
      [] field = "Daños Materiales" -> Currency("Danos_Materiales")
      [] field = "Robo Total" -> Currency("Robo_Total")
      [] field = "Responsabilidad Civil" -> Currency("Responsabilidad_Civil")
      [] field = "Gastos Medicos Ocupantes" -> Currency("Gastos_Medicos")
      [] field = "Asistencia Legal" ->
            IF co = "HDI" THEN Plain("Asistencia_Legal", NA)
            ELSE IF co = "Qualitas" THEN Plain("Gastos_Legales", NA)
            ELSE IF co = "ANA" THEN Currency("Defensa_Juridica")
            ELSE Currency("Asistencia_Legal")
      [] field = "Asistencia Viajes" ->
            IF co = "HDI" THEN Plain("Asistencia_Viajes", NA)
            ELSE IF co = "Qualitas" THEN Plain("Asistencia_Vial", NA)
            ELSE Fixed(<<"A","m","p","a","r","a","d","a">>)
      [] field = "Responsabilidad civil catastrofica" ->
            IF co = "Qualitas" THEN Currency("RC_Complementaria")
            ELSE Currency("RC_Catastrofica")
      [] field = "Desbielamiento por agua al motor" ->
            IF co = "ANA" THEN Currency("Desbielamiento") ELSE Fixed(NA)

Mapped(d, m) ==
    IF m.kind = "currency" THEN format_currency(SchemaGet(d, m.key))
    ELSE IF m.kind = "plain" THEN SchemaGetOr(d, m.key, m.value)
    ELSE m.value

\* return {"company": ...} of an extractor whose request gave nothing
Stub(co) == ("company" :> DisplayName(co))

\* the record of extract_<company>_ai for a dictionary that is not empty
MapToStandard(co, d) ==
    Stub(co) @@ ("vehicle_name" :> SchemaGetOr(d, "vehicle_name", <<>>))
    @@ [field \in AI_FIELDS |-> Mapped(d, Mapping(co, field))]

NoDict == [isNone |-> TRUE, isDict |-> FALSE, d |-> <<>>]
Dict(d) == [isNone |-> FALSE, isDict |-> TRUE, d |-> d]
\* a JSON value that is not an object
NotDict == [isNone |-> FALSE, isDict |-> FALSE, d |-> <<>>]

\* the responses of the backend: status 200 with a body that parses, another
\* status, status 200 with a body that is not JSON, and an exception of
\* requests.post (timeout, connection)
Failures == {"status", "malformed", "exception"}

\* the company of a classification that parses: the four identifiers,
\* another one, an empty one, and none
CompanyAnswers == {"HDI", "Qualitas", "ANA", "Atlas", "GNP", ""}

ClassifyResponses ==
    { [outcome |-> "ok", company |-> Str(c)] : c \in CompanyAnswers }
    \cup { [outcome |-> "ok", company |-> NoneStr] }
    \cup { [outcome |-> o, company |-> NoneStr] : o \in Failures }

\* the values of a schema: amounts with and without symbol and separators,
\* coverage words, the sentinel, and an empty text
SchemaValues ==
    { <<"$","1",",","0","0","0",".","0","0">>, <<"1","2","3","4",".","5">>, <<"A","M","P","A","R","A","D","A">>, <<"n","o"," ","a","m","p","a","r","a","d","a">>, <<"N","/","A">>, <<>> }

PremiumKeys == {"Prima_Neta", "Recargos", "Derechos", "IVA", "Prima_Total"}

CoverageKeys ==
    { "Forma_Pago", "Danos_Materiales", "Robo_Total", "Responsabilidad_Civil",
      "Gastos_Medicos", "Asistencia_Legal", "Asistencia_Viajes", "Gastos_Legales",
      "Asistencia_Vial", "Defensa_Juridica", "RC_Catastrofica", "RC_Complementaria",
      "Desbielamiento" }

\* "required": ["vehicle_name", "Prima_Total"]
RequiredKeys == {"vehicle_name", "Prima_Total"}

Schema(keys, pv, cv) ==
    [k \in keys |-> IF k = "vehicle_name" THEN <<"J","E","T","T","A">>
                    ELSE IF k \in PremiumKeys THEN pv ELSE cv]

ExtractedSchemas ==
    { Dict(<<>>), NotDict }
    \cup { Dict(Schema(keys, pv, cv)) :
              keys \in {RequiredKeys, {"vehicle_name"} \cup PremiumKeys \cup CoverageKeys},
              pv \in SchemaValues, cv \in SchemaValues }

ExtractResponses ==
    { [outcome |-> "ok", schema |-> e] : e \in ExtractedSchemas }
    \cup { [outcome |-> o, schema |-> NoDict] : o \in Failures }

\* classify_company_ai: the company of a response of status 200, else None
classify_company_ai(resp) ==
    IF resp.outcome = "ok" THEN resp.company ELSE NoneStr

\* call_extraction_api: extracted_schema of a response of status 200, else
\* None
call_extraction_api(resp) ==
    IF resp.outcome = "ok" THEN resp.schema ELSE NoDict

NoResult == [isNone |-> TRUE, row |-> <<>>]
Result(row) == [isNone |-> FALSE, row |-> row]

\* extract_<company>_ai behind its request; the AttributeError of a value
\* that is not a dictionary is caught by parse_pdf_ai
extract_ai(co, ex) ==
    IF ex.isNone \/ (ex.isDict /\ DOMAIN ex.d = {}) THEN Result(Stub(co))
    ELSE IF ~ex.isDict THEN NoResult
    ELSE Result(MapToStandard(co, ex.d))

SupportedAI == {"HDI", "Qualitas", "ANA", "Atlas"}

AiIdle ==
    /\ api_key = FALSE /\ ai_pc = "idle" /\ requests = <<>>
    /\ ai_company = NoneStr /\ ai_result = NoResult

AmtIdle ==
    /\ amt_text = <<>> /\ anchors = <<>> /\ lookahead_chars = lookahead_default
    /\ amt_pc = "idle" /\ amt_result = NoneStr

AuxIdle == AmtIdle /\ VehIdle /\ AiIdle

(***************************************************************************)
(* Specification of the document path: one document is handed to           *)
(* parse_pdf.                                                              *)
(***************************************************************************)
NoView == [template |-> "none", error |-> "none"]

BatchIdle ==
    /\ files = <<>> /\ idx = 0 /\ bpc = "idle"
    /\ parsed_data = <<>> /\ origin = <<>> /\ errors = <<>> /\ extracted = <<>>
    /\ detected_vehicle = <<>> /\ header_colors = <<>>
    /\ company_col_width = <<>> /\ dyn_fields = <<>> /\ view = NoView
    /\ epc = "idle" /\ exp_data = <<>> /\ exp_colors = <<>> /\ exp_width = <<>>
    /\ exp_first_fields = <<>> /\ exp_fields = <<>>

FinIdle ==
    /\ prima_neta_raw = NoneStr /\ prima_total_raw = NoneStr
    /\ recargos_raw = NoneStr /\ derechos_raw = NoneStr
    /\ fpc = "idle" /\ loc = NoLocals /\ fin = NoFin

DocIdle ==
    /\ text = <<>> /\ readable = TRUE /\ pc = "idle"
    /\ company = None /\ result = NoRecord

InitDoc ==
    /\ text \in Texts
    /\ readable \in BOOLEAN
    /\ pc = "call"
    /\ company = None
    /\ result = NoRecord
    /\ FinIdle
    /\ BatchIdle
    /\ AuxIdle

\* parse_pdf(pdf_content): an unreadable document raises inside the try
\* block and yields None
ParsePdf ==
    /\ pc = "call"
    /\ pc' = "returned"
    /\ company' = IF readable THEN identify_company(text) ELSE None
    /\ result' = parse_pdf(readable, text, BareContent)
    /\ UNCHANGED <<text, readable>>
    /\ UNCHANGED <<finVars, batchVars, exportVars, auxVars>>

NextDoc == ParsePdf

SpecDoc == InitDoc /\ [][NextDoc]_vars

(***************************************************************************)
(* Specification of the Financial Normalizer: the four raw inputs are      *)
(* drawn, _compute_financials is applied.                                  *)
(***************************************************************************)
InitFin ==
    /\ prima_neta_raw \in NetRaws
    /\ prima_total_raw \in TotalRaws
    /\ recargos_raw \in RecRaws
    /\ derechos_raw \in DerRaws
    /\ fpc = "call"
    /\ loc = NoLocals
    /\ fin = NoFin
    /\ DocIdle
    /\ BatchIdle
    /\ AuxIdle

\* an exception escaping _to_number would leave _compute_financials without
\* a result
FinRaises ==
    \E raw \in {prima_neta_raw, prima_total_raw, recargos_raw, derechos_raw} :
        Raised(_to_number(raw))

ComputeFinancials ==
    /\ fpc = "call"
    /\ IF FinRaises
       THEN fpc' = "raised" /\ loc' = NoLocals /\ fin' = NoFin
       ELSE /\ fpc' = "returned"
            /\ loc' = FinLocals(prima_neta_raw, prima_total_raw, recargos_raw, derechos_raw)
            /\ fin' = _compute_financials(prima_neta_raw, prima_total_raw, recargos_raw, derechos_raw)
    /\ UNCHANGED <<prima_neta_raw, prima_total_raw, recargos_raw, derechos_raw>>
    /\ UNCHANGED <<docVars, batchVars, exportVars, auxVars>>

NextFin == ComputeFinancials

SpecFin == InitFin /\ [][NextFin]_vars

(***************************************************************************)
(* The Financial Normalizer on absent and malformed inputs: strings that   *)
(* are not numbers after the currency symbol, separators and blanks are    *)
(* removed.                                                                *)
(***************************************************************************)
MalformedStrings == {
    <<"N","/","A">>,
    <<"a","b","c">>,
    <<"1",".","2",".","3">>,
    <<"$">>,
    <<"1","2",".","5","x">>,
    <<"-">>,
    <<" ">>,
    <<"$"," ","1",",","0",".","0",".","0">> }

FewMalformed == { <<"N","/","A">>, <<"1",".","2",".","3">>, <<" ">> }

NetMal ==
    {NoneStr, Str(<<>>)} \cup { Str(m) : m \in MalformedStrings }
        \cup { Str(AmountToken(99999)), Str(<<"$">> \o AmountToken(1234567)) }

TotalMal ==
    {NoneStr} \cup { Str(m) : m \in FewMalformed }
        \cup { Str(AmountToken(0)), Str(WholeToken(1500000)) }

RecMal ==
    {NoneStr, Str(<<>>)} \cup { Str(m) : m \in MalformedStrings }
        \cup { Str(AmountToken(10000)) }

DerMal ==
    {NoneStr} \cup { Str(m) : m \in FewMalformed } \cup { Str(AmountToken(5000)) }

InitMal ==
    /\ prima_neta_raw \in NetMal
    /\ prima_total_raw \in TotalMal
    /\ recargos_raw \in RecMal
    /\ derechos_raw \in DerMal
    /\ fpc = "call"
    /\ loc = NoLocals
    /\ fin = NoFin
    /\ DocIdle
    /\ BatchIdle
    /\ AuxIdle

SpecMal == InitMal /\ [][NextFin]_vars

(***************************************************************************)
(* The batch assembler of process_files: sort, overrides, presentation     *)
(* metadata and the field list.                                            *)
(***************************************************************************)
MASTER_FIELDS ==
    << "Forma de Pago", "Daños Materiales", "Deducible - DM", "Robo Total",
       "Deducible - RT", "Responsabilidad Civil", "Gastos Medicos Ocupantes",
       "Asistencia Legal", "Asistencia Viajes", "Atlas Cero Plus por PT de DM",
       "Accidente al conductor", "Responsabilidad civil catastrofica",
       "Desbielamiento por agua al motor", "Prima Neta", "Recargos",
       "Derechos de Póliza", "IVA", "Prima Total" >>

\* dict.get(k, default)
Get(row, k, default) == IF k \in DOMAIN row THEN row[k] ELSE default

\* row[k] = v
Put(row, k, v) == (k :> v) @@ row

\* row.setdefault(k, v)
SetDefault(row, k, v) == IF k \in DOMAIN row THEN row ELSE row @@ (k :> v)

\* the order of str comparison: by code point, character by character, a
\* proper prefix first
CodeOrder ==
    <<" ">> \o SubSeq(UpperChars, 1, 26) \o SubSeq(LowerChars, 1, 26) \o <<"Á", "á">>

CodePoint(c) == CHOOSE i \in 1..Len(CodeOrder) : CodeOrder[i] = c

RECURSIVE StrLess(_, _)
StrLess(a, b) ==
    IF b = <<>> THEN FALSE
    ELSE IF a = <<>> THEN TRUE
    ELSE IF a[1] = b[1] THEN StrLess(Tail(a), Tail(b))
    ELSE CodePoint(a[1]) < CodePoint(b[1])

\* key=lambda x: x.get('company', '')
SortKey(row) == Get(row, "company", <<>>)

\* an ordering that puts a later record before the earlier records of the
\* same key
RECURSIVE SortOrder_unstable(_, _)
SortOrder_unstable(rows, n) ==
    IF n = 0 THEN <<>>
    ELSE LET prev == SortOrder_unstable(rows, n - 1)
             before == { j \in 1..(n - 1) :
                           StrLess(SortKey(rows[prev[j]]), SortKey(rows[n])) }
             pos == Cardinality(before)
         IN SubSeq(prev, 1, pos) \o <<n>> \o SubSeq(prev, pos + 1, n - 1)

\* list.sort(key=...): the positions of the first n records in ascending
\* order of their keys; a record goes behind every earlier record whose key
\* is not greater than its own
RECURSIVE SortOrder(_, _)
SortOrder(rows, n) ==
    IF n = 0 THEN <<>>
    ELSE LET prev == SortOrder(rows, n - 1)
             before == { j \in 1..(n - 1) :
                           ~StrLess(SortKey(rows[n]), SortKey(rows[prev[j]])) }
             pos == Cardinality(before)
         IN SubSeq(prev, 1, pos) \o <<n>> \o SubSeq(prev, pos + 1, n - 1)

Permuted(q, order) == [i \in 1..Len(order) |-> q[order[i]]]

ACCIDENTE_FIXED == <<"$","1","0","0",",","0","0","0",".","0","0">>
DEDUCIBLE_DM == <<"3","%">>
DEDUCIBLE_RT == <<"5","%">>

Found(row, k) == k \in DOMAIN row /\ row[k] # <<>> /\ row[k] # NA

\* overrides that leave out the theft deductible
Override_nort(row) ==
    LET r1 == SetDefault(row, "Asistencia Viajes", AMPARADA)
        r2 == Put(r1, "Atlas Cero Plus por PT de DM", AMPARADA)
        r3 == Put(r2, "Accidente al conductor", ACCIDENTE_FIXED)
        r4 == Put(r3, "Deducible - DM", DEDUCIBLE_DM)
    IN IF Get(r4, "company", <<>>) = DisplayName("Atlas")
       THEN Put(r4, "Desbielamiento por agua al motor", AMPARADA)
       ELSE r4

\* overrides that set a deductible only where the coverage was found
Override_found(row) ==
    LET r1 == SetDefault(row, "Asistencia Viajes", AMPARADA)
        r2 == Put(r1, "Atlas Cero Plus por PT de DM", AMPARADA)
        r3 == Put(r2, "Accidente al conductor", ACCIDENTE_FIXED)
        r4 == Put(r3, "Deducible - DM",
                  IF Found(r3, "Daños Materiales") THEN DEDUCIBLE_DM ELSE NA)
        r5 == Put(r4, "Deducible - RT",
                  IF Found(r4, "Robo Total") THEN DEDUCIBLE_RT ELSE NA)
    IN IF Get(r5, "company", <<>>) = DisplayName("Atlas")
       THEN Put(r5, "Desbielamiento por agua al motor", AMPARADA)
       ELSE r5

\* overrides that assign the travel assistance instead of defaulting it
Override_assign(row) ==
    LET r1 == Put(row, "Asistencia Viajes", AMPARADA)
        r2 == Put(r1, "Atlas Cero Plus por PT de DM", AMPARADA)
        r3 == Put(r2, "Accidente al conductor", ACCIDENTE_FIXED)
        r4 == Put(r3, "Deducible - DM", DEDUCIBLE_DM)
        r5 == Put(r4, "Deducible - RT", DEDUCIBLE_RT)
    IN IF Get(r5, "company", <<>>) = DisplayName("Atlas")
       THEN Put(r5, "Desbielamiento por agua al motor", AMPARADA)
       ELSE r5

\* the body of the override loop for one row
Override(row) ==
    LET r1 == SetDefault(row, "Asistencia Viajes", AMPARADA)
        r2 == Put(r1, "Atlas Cero Plus por PT de DM", AMPARADA)
        r3 == Put(r2, "Accidente al conductor", ACCIDENTE_FIXED)
        r4 == Put(r3, "Deducible - DM",
                  IF Found(r3, "Daños Materiales") THEN DEDUCIBLE_DM ELSE DEDUCIBLE_DM)
        r5 == Put(r4, "Deducible - RT",
                  IF Found(r4, "Robo Total") THEN DEDUCIBLE_RT ELSE DEDUCIBLE_RT)
    IN IF Get(r5, "company", <<>>) = DisplayName("Atlas")
       THEN Put(r5, "Desbielamiento por agua al motor", AMPARADA)
       ELSE r5

\* the first vehicle name that is not empty, '' if there is none
RECURSIVE DetectedVehicle(_)
DetectedVehicle(rows) ==
    IF rows = <<>> THEN <<>>
    ELSE IF Get(rows[1], "vehicle_name", <<>>) # <<>> THEN rows[1]["vehicle_name"]
    ELSE DetectedVehicle(Tail(rows))

K_ANA_SEGUROS == <<"A","N","A"," ","S","E","G","U","R","O","S">>

\* a brand table with the colors of two brands exchanged
color_map_exchanged ==
    << <<ANA, "#006729">>, <<K_ANA_SEGUROS, "#006729">>,
       <<HDI, "#FE1034">>, <<HDI_SEGUROS, "#FE1034">>,
       <<QUALITAS, "#666678">>, <<QUALITAS_ACC, "#666678">>,
       <<SEGUROS_ATLAS, "#D0112B">>, <<ATLAS, "#D0112B">> >>

\* color_map, in the order of its items()
color_map ==
    << <<ANA, "#FE1034">>, <<K_ANA_SEGUROS, "#FE1034">>,
       <<HDI, "#006729">>, <<HDI_SEGUROS, "#006729">>,
       <<QUALITAS, "#666678">>, <<QUALITAS_ACC, "#666678">>,
       <<SEGUROS_ATLAS, "#D0112B">>, <<ATLAS, "#D0112B">> >>

default_color == "#0b4a6a"

\* the color of the first key of color_map that is contained in the
\* upper-cased company name
ColorOf(item) ==
    LET name == Upper(Get(item, "company", <<>>))
        hits == { i \in 1..Len(color_map) : Contains(color_map[i][1], name) }
    IN IF hits = {} THEN default_color
       ELSE color_map[CHOOSE i \in hits : \A j \in hits : i <= j][2]

HeaderColors(rows) == [i \in 1..Len(rows) |-> ColorOf(rows[i])]

remaining == 78

\* a column count without the lower limit of one, counting the label column
num_cols_labelled(rows) == Len(rows) + 1

\* max(len(parsed_data), 1)
num_cols(rows) == IF Len(rows) > 1 THEN Len(rows) ELSE 1

\* f"{remaining/num_cols:.2f}%": the quotient rounded to hundredths, an
\* exact tie to the even hundredth
CompanyColWidth(rows) ==
    LET n == num_cols(rows)
        q == (remaining * 100) \div n
        r == (remaining * 100) % n
        h == IF 2 * r > n \/ (2 * r = n /\ q % 2 = 1) THEN q + 1 ELSE q
    IN NatChars(h \div 100) \o <<".">>
       \o <<Digits[((h % 100) \div 10) + 1], Digits[(h % 10) + 1]>> \o <<"%">>

ATLAS_FIELD == "Atlas Cero Plus por PT de DM"

\* any('ATLAS' in row.get('company','').upper() for row in parsed_data)
has_atlas(rows) ==
    \E i \in 1..Len(rows) : Contains(ATLAS, Upper(Get(rows[i], "company", <<>>)))

\* a field list that is never shortened
DynFields_full(rows) ==
    SelectSeq(MASTER_FIELDS, LAMBDA f : TRUE)

\* [f for f in MASTER_FIELDS if has_atlas or f != 'Atlas Cero Plus por PT de DM']
DynFields(rows) ==
    SelectSeq(MASTER_FIELDS, LAMBDA f : has_atlas(rows) \/ f # ATLAS_FIELD)

(***************************************************************************)
(* The recomputation of the export route.                                  *)
(***************************************************************************)
KeepNumeric(c) == IsDigit(c) \/ c \in {".", ",", "-"}

\* to_num(s) of export_pdf_with_data; s is None where the key is missing
to_num(s) ==
    IF s.isNone \/ s.s = <<>> THEN 0
    ELSE LET n == SelectSeq(SelectSeq(s.s, KeepNumeric), LAMBDA c : c # ",")
             parsed == ParseFloat(n)
         IN IF Raised(parsed) THEN 0 ELSE parsed.v

OptGet(item, k) == IF k \in DOMAIN item THEN Str(item[k]) ELSE NoneStr

Recomputed(item) ==
    LET pn == to_num(OptGet(item, "Prima Neta"))
        rec == to_num(OptGet(item, "Recargos"))
        der == to_num(OptGet(item, "Derechos de Póliza"))
        sum == pn + rec + der
        iva == (sum \div 100) * 16 + ((sum % 100) * 16) \div 100
        total == sum + iva
    IN Put(Put(item, "IVA", Dollar(_format_currency(iva))),
           "Prima Total", Dollar(_format_currency(total)))

\* a record that no extractor of this program produced
ForeignRow ==
    ("company" :> <<"O","t","r","a">>) @@ ("Prima Neta" :> Dollar(AmountToken(500000)))

ForeignPayloads == { <<>>, <<ForeignRow>>, <<ForeignRow, ("Recargos" :> NA)>> }

(***************************************************************************)
(* Specification of the upload and export routes.                          *)
(***************************************************************************)
InitBatch ==
    /\ files \in SeqsUpTo(Docs, MaxFiles)
    /\ idx = 0 /\ bpc = "start"
    /\ parsed_data = <<>> /\ origin = <<>> /\ errors = <<>> /\ extracted = <<>>
    /\ detected_vehicle = <<>> /\ header_colors = <<>>
    /\ company_col_width = <<>> /\ dyn_fields = <<>> /\ view = NoView
    /\ epc = "idle" /\ exp_data = <<>> /\ exp_colors = <<>> /\ exp_width = <<>>
    /\ exp_first_fields = <<>> /\ exp_fields = <<>>
    /\ DocIdle /\ FinIdle /\ AuxIdle

\* a test that only sees an upload without any file
NoneSelected_nofile == files = <<>>

\* not files or all(file.filename == '' for file in files)
NoneSelected == files = <<>> \/ \A i \in 1..Len(files) : files[i].filename = "empty"

NoFilesSelected ==
    /\ bpc = "start" /\ NoneSelected
    /\ bpc' = "done"
    /\ view' = [template |-> "index.html", error |-> "No files selected"]
    /\ UNCHANGED <<files, idx, parsed_data, origin, errors, extracted,
                   detected_vehicle, header_colors, company_col_width, dyn_fields>>
    /\ UNCHANGED <<exportVars, docVars, finVars, auxVars>>

StartLoop ==
    /\ bpc = "start" /\ ~NoneSelected
    /\ bpc' = "loop" /\ idx' = 1
    /\ parsed_data' = <<>> /\ errors' = <<>> /\ origin' = <<>>
    /\ UNCHANGED <<files, extracted, detected_vehicle, header_colors,
                   company_col_width, dyn_fields, view>>
    /\ UNCHANGED <<exportVars, docVars, finVars, auxVars>>

\* a loop body in which a file whose stream cannot be read leaves no outcome
LoopBody_lost(file, res) ==
    IF file.filename = "pdf"
    THEN IF file.read = "ioerror"
         THEN UNCHANGED <<parsed_data, origin, errors>>
         ELSE IF ~res.isNone
         THEN /\ parsed_data' = Append(parsed_data, res.row)
              /\ origin' = Append(origin, idx)
              /\ UNCHANGED errors
         ELSE /\ errors' = Append(errors, [kind |-> "Could not parse", file |-> idx])
              /\ UNCHANGED <<parsed_data, origin>>
    ELSE /\ errors' = Append(errors, [kind |-> "Invalid file type", file |-> idx])
         /\ UNCHANGED <<parsed_data, origin>>

\* the body of the loop for one file; result is what parse_pdf returns for
\* its content
LoopBody(file, res) ==
    IF file.filename = "pdf"
    THEN IF file.read = "ioerror"
         THEN /\ errors' = Append(errors, [kind |-> "Error processing", file |-> idx])
              /\ UNCHANGED <<parsed_data, origin>>
         ELSE IF ~res.isNone
         THEN /\ parsed_data' = Append(parsed_data, res.row)
              /\ origin' = Append(origin, idx)
              /\ UNCHANGED errors
         ELSE /\ errors' = Append(errors, [kind |-> "Could not parse", file |-> idx])
              /\ UNCHANGED <<parsed_data, origin>>
    ELSE /\ errors' = Append(errors, [kind |-> "Invalid file type", file |-> idx])
         /\ UNCHANGED <<parsed_data, origin>>

\* one iteration of the loop over the uploaded files
ProcessFile ==
    /\ bpc = "loop" /\ idx <= Len(files)
    /\ LoopBody(files[idx],
                parse_pdf(files[idx].read = "ok", files[idx].text,
                          ContentOf(files[idx].content)))
    /\ idx' = idx + 1
    /\ UNCHANGED <<files, bpc, extracted, detected_vehicle, header_colors,
                   company_col_width, dyn_fields, view>>
    /\ UNCHANGED <<exportVars, docVars, finVars, auxVars>>

NoValidPdfs ==
    /\ bpc = "loop" /\ idx > Len(files) /\ parsed_data = <<>>
    /\ bpc' = "done"
    /\ view' = [template |-> "index.html", error |-> "No valid PDFs could be parsed"]
    /\ UNCHANGED <<files, idx, parsed_data, origin, errors, extracted,
                   detected_vehicle, header_colors, company_col_width, dyn_fields>>
    /\ UNCHANGED <<exportVars, docVars, finVars, auxVars>>

\* an assembly that does not wait for the end of the loop
Assemble_early ==
    /\ bpc = "loop" /\ parsed_data # <<>>
    /\ LET order == SortOrder(parsed_data, Len(parsed_data))
           sorted == Permuted(parsed_data, order)
           rows == [i \in 1..Len(sorted) |-> Override(sorted[i])]
       IN /\ extracted' = sorted
          /\ origin' = Permuted(origin, order)
          /\ parsed_data' = rows
          /\ detected_vehicle' = DetectedVehicle(rows)
          /\ header_colors' = HeaderColors(rows)
          /\ company_col_width' = CompanyColWidth(rows)
          /\ dyn_fields' = DynFields(rows)
    /\ bpc' = "rendered"
    /\ view' = [template |-> "results.html", error |-> "none"]
    /\ UNCHANGED <<files, idx, errors>>
    /\ UNCHANGED <<exportVars, docVars, finVars, auxVars>>

\* the rest of process_files after the loop: sort, overrides, colors, width,
\* field list, render
Assemble ==
    /\ bpc = "loop" /\ idx > Len(files) /\ parsed_data # <<>>
    /\ LET order == SortOrder(parsed_data, Len(parsed_data))
           sorted == Permuted(parsed_data, order)
           rows == [i \in 1..Len(sorted) |-> Override(sorted[i])]
       IN /\ extracted' = sorted
          /\ origin' = Permuted(origin, order)
          /\ parsed_data' = rows
          /\ detected_vehicle' = DetectedVehicle(rows)
          /\ header_colors' = HeaderColors(rows)
          /\ company_col_width' = CompanyColWidth(rows)
          /\ dyn_fields' = DynFields(rows)
    /\ bpc' = "rendered"
    /\ view' = [template |-> "results.html", error |-> "none"]
    /\ UNCHANGED <<files, idx, errors>>
    /\ UNCHANGED <<exportVars, docVars, finVars, auxVars>>

\* export_pdf_with_data on a payload: sort, colors, width, first render,
\* recomputation, final render
ExportOf(payload) ==
    /\ epc = "idle"
    /\ LET order == SortOrder(payload, Len(payload))
           sorted == Permuted(payload, order)
       IN /\ exp_colors' = HeaderColors(sorted)
          /\ exp_width' = CompanyColWidth(sorted)
          /\ exp_first_fields' = DynFields(sorted)
          /\ exp_data' = [i \in 1..Len(sorted) |-> Recomputed(sorted[i])]
          /\ exp_fields' = MASTER_FIELDS
    /\ epc' = "pdf"
    /\ UNCHANGED <<batchVars, docVars, finVars, auxVars>>

\* the page posts back the records it shows
ExportPage ==
    /\ bpc = "rendered"
    /\ ExportOf(parsed_data)

\* another client posts records of its own
ExportForeign ==
    /\ bpc \in {"rendered", "done"}
    /\ \E payload \in ForeignPayloads : ExportOf(payload)

\* WEASYPRINT_AVAILABLE is false: 503 before anything is read
ExportUnavailable ==
    /\ bpc \in {"rendered", "done"}
    /\ epc = "idle"
    /\ epc' = "unavailable"
    /\ UNCHANGED <<exp_data, exp_colors, exp_width, exp_first_fields, exp_fields>>
    /\ UNCHANGED <<batchVars, docVars, finVars, auxVars>>

NextBatch ==
    \/ NoFilesSelected
    \/ StartLoop
    \/ ProcessFile
    \/ NoValidPdfs
    \/ Assemble
    \/ ExportPage
    \/ ExportForeign
    \/ ExportUnavailable

SpecBatch == InitBatch /\ [][NextBatch]_vars

(***************************************************************************)
(* Specification of _extract_amount_after: a text, an anchor list and a    *)
(* lookahead are drawn, the function is applied.                           *)
(***************************************************************************)
InitAmt ==
    /\ amt_text \in AmtTexts
    /\ anchors \in AnchorLists
    /\ lookahead_chars \in Lookaheads
    /\ amt_pc = "call"
    /\ amt_result = NoneStr
    /\ DocIdle /\ FinIdle /\ BatchIdle /\ VehIdle /\ AiIdle

ExtractAmountAfter ==
    /\ amt_pc = "call"
    /\ amt_pc' = "returned"
    /\ amt_result' = _extract_amount_after(amt_text, anchors, lookahead_chars)
    /\ UNCHANGED <<amt_text, anchors, lookahead_chars>>
    /\ UNCHANGED <<docVars, finVars, batchVars, exportVars, vehVars, aiVars>>

NextAmt == ExtractAmountAfter

SpecAmt == InitAmt /\ [][NextAmt]_vars

(***************************************************************************)
(* Specification of extract_vehicle: a brand list and a text are drawn,    *)
(* the function is applied.                                                *)
(***************************************************************************)
InitVeh ==
    /\ BRANDS \in BrandLists
    /\ veh_text \in VehTexts
    /\ veh_pc = "call"
    /\ vehicle = <<>>
    /\ DocIdle /\ FinIdle /\ BatchIdle /\ AmtIdle /\ AiIdle

ExtractVehicle ==
    /\ veh_pc = "call"
    /\ veh_pc' = "returned"
    /\ vehicle' = extract_vehicle(veh_text, BRANDS)
    /\ UNCHANGED <<BRANDS, veh_text>>
    /\ UNCHANGED <<docVars, finVars, batchVars, exportVars, amtVars, aiVars>>

NextVeh == ExtractVehicle

SpecVeh == InitVeh /\ [][NextVeh]_vars

(***************************************************************************)
(* Specification of parse_pdf_ai: one document, the responses of the       *)
(* backend are drawn.                                                      *)
(***************************************************************************)
InitAI ==
    /\ api_key \in BOOLEAN
    /\ ai_pc = "start"
    /\ requests = <<>>
    /\ ai_company = NoneStr
    /\ ai_result = NoResult
    /\ DocIdle /\ FinIdle /\ BatchIdle /\ AmtIdle /\ VehIdle

AiFrame == UNCHANGED <<docVars, finVars, batchVars, exportVars, amtVars, vehVars>>

\* if not LANDING_AI_API_KEY: return None
MissingKey ==
    /\ ai_pc = "start" /\ ~api_key
    /\ ai_pc' = "done"
    /\ ai_result' = NoResult
    /\ UNCHANGED <<api_key, requests, ai_company>>
    /\ AiFrame

\* the classification request and what parse_pdf_ai does with its answer
ClassifyStep(resp, co) ==
    /\ requests' = Append(requests, [step |-> "classify", timeout |-> classify_timeout,
                                     outcome |-> resp.outcome])
    /\ ai_company' = co
    /\ ai_pc' = IF ~co.isNone /\ co.s \in SupportedAI THEN "extract" ELSE "done"
    /\ ai_result' = NoResult
    /\ UNCHANGED api_key
    /\ AiFrame

Classify ==
    /\ ai_pc = "start" /\ api_key
    /\ \E resp \in ClassifyResponses : ClassifyStep(resp, classify_company_ai(resp))

\* the extraction request repeated after a failure
ExtractStep_retry(resp, res) ==
    /\ requests' = Append(requests, [step |-> "extract", timeout |-> extraction_timeout,
                                     outcome |-> resp.outcome])
    /\ ai_result' = res
    /\ ai_pc' = IF resp.outcome # "ok" /\ Len(requests) < 2 THEN "extract" ELSE "done"
    /\ UNCHANGED <<api_key, ai_company>>
    /\ AiFrame

\* the extraction request of the extractor of the company and its return
ExtractStep(resp, res) ==
    /\ requests' = Append(requests, [step |-> "extract", timeout |-> extraction_timeout,
                                     outcome |-> resp.outcome])
    /\ ai_result' = res
    /\ ai_pc' = "done"
    /\ UNCHANGED <<api_key, ai_company>>
    /\ AiFrame

Extract ==
    /\ ai_pc = "extract"
    /\ \E resp \in ExtractResponses :
           ExtractStep(resp, extract_ai(ai_company.s, call_extraction_api(resp)))

NextAI == MissingKey \/ Classify \/ Extract

SpecAI == InitAI /\ [][NextAI]_vars

(***************************************************************************)
(* Properties of the Document Classifier (SpecDoc).                        *)
(***************************************************************************)
\* the upper-cased document text contains the token
HasTok(tok) == Contains(tok, Upper(text))

HasQualitas == HasTok(QUALITAS) \/ HasTok(QUALITAS_ACC)

ANA_SEGUROS == <<"A","N","A"," ","S","E","G","U","R","O","S">>

\* rule 1 and rule 2 as tested at pdf_parser.py lines 208 and 211
AtlasRule == HasTok(ATLAS) /\ ~HasTok(SEGUROS_ATLAS)
AnaRule == HasTok(ANA) /\ ~HasTok(HDI) /\ ~HasTok(ATLAS) /\ ~HasTok(QUALITAS)

Classified == pc = "returned" /\ readable

C2_DisplayNamesIdentified ==
    Classified =>
        /\ (HasTok(HDI_SEGUROS) /\ ~HasTok(ATLAS) /\ ~HasTok(ANA) /\ ~HasQualitas)
              => company = "HDI"
        /\ (HasTok(SEGUROS_ATLAS) /\ ~HasTok(HDI) /\ ~HasTok(ANA) /\ ~HasQualitas)
              => company = "Atlas"
        /\ (HasTok(ANA_SEGUROS) /\ ~HasTok(HDI) /\ ~HasTok(ATLAS) /\ ~HasQualitas)
              => company = "ANA"
        /\ (HasQualitas /\ ~HasTok(HDI) /\ ~HasTok(ATLAS) /\ ~HasTok(ANA))
              => company = "Qualitas"
        /\ (~HasTok(HDI) /\ ~HasTok(ATLAS) /\ ~HasTok(ANA) /\ ~HasQualitas)
              => company = None

C4_AnaExcludesOtherBrands ==
    (Classified /\ company = "ANA") =>
        /\ HasTok(ANA)
        /\ ~HasTok(ATLAS) /\ ~HasTok(HDI)
        /\ ~HasTok(QUALITAS) /\ ~HasTok(QUALITAS_ACC)

(***************************************************************************)
(* Properties of the Financial Normalizer (SpecFin).                       *)
(***************************************************************************)
\* amounts, in cents, that the drawn tokens print
DrawnCents == GridCents \cup {99999, 100000, 100001, 1234567, 1500000,
                              10000, 200000, 200001, 500000, 0, 5000, 65000}

\* what a raw input says, read off the token it was drawn as: the amount in
\* cents, or -1 when the input is absent
ValueCents(raw) ==
    IF raw.isNone THEN 0 - 1
    ELSE CHOOSE c \in DrawnCents :
            \/ raw.s = AmountToken(c)
            \/ raw.s = <<"$">> \o AmountToken(c)
            \/ raw.s = <<"$"," ">> \o AmountToken(c)
            \/ (c % 100 = 0 /\ raw.s = WholeToken(c))

\* the amount in cents that an output string shows; 'N/A' and "$ 0" show 0
RenderedCents(s) ==
    IF s = NA \/ s = DollarZero THEN 0 ELSE DigitsVal(SelectSeq(s, IsDigit))

\* a '$'-prefixed amount with thousands separators and two decimals
IsCurrencyString(s) ==
    /\ Len(s) >= 5
    /\ s = <<"$">> \o AmountToken(RenderedCents(s))

Returned == fpc = "returned"

\* the values the specification prescribes, in cents, from the inputs
ExpNetCents ==
    LET n == ValueCents(prima_neta_raw)
        t == ValueCents(prima_total_raw)
    IN IF n > 1000 * 100 THEN n ELSE IF t > 1000 * 100 THEN t ELSE 0

ExpRecCents ==
    LET r == ValueCents(recargos_raw)
    IN IF r < 0 \/ r > 2000 * 100 THEN 0 ELSE r

ExpDerCents ==
    LET d == ValueCents(derechos_raw)
    IN IF d < 0 THEN 0 ELSE d

\* 16% of an amount in cents, rounded to the nearest cent
TaxCents(sum) == (16 * sum + 50) \div 100

\* C5: the chosen net premium is the parsed net value when it is strictly
\* greater than the threshold 1000, otherwise the parsed total value when
\* that is strictly greater than the threshold, otherwise zero; a value
\* equal to the threshold is not chosen.
C5_ChosenNet ==
    Returned =>
        /\ loc.chosen_neta = ExpNetCents * 100
        /\ fin["Prima Neta"] =
              (IF ExpNetCents > 0 THEN Dollar(AmountToken(ExpNetCents)) ELSE NA)

\* a net exactly at the threshold was passed over for a total above it
C5_Witness ==
    /\ Returned
    /\ ValueCents(prima_neta_raw) = 1000 * 100
    /\ ValueCents(prima_total_raw) > 1000 * 100
    /\ loc.chosen_neta = ValueCents(prima_total_raw) * 100

\* C6: a surcharge strictly greater than the cap 2000 is replaced by zero
\* before tax and total are computed, whatever the other inputs: it adds
\* nothing to IVA or Prima Total and 'Recargos' renders as "$ 0"; a
\* surcharge equal to or below the cap is kept.
C6_SurchargeCap ==
    Returned =>
        LET r == ValueCents(recargos_raw)
            base == ExpNetCents + ExpDerCents
        IN /\ r > 2000 * 100 =>
                /\ loc.rec_num = 0
                /\ fin["Recargos"] = DollarZero
                /\ fin["IVA"] = Dollar(AmountToken(TaxCents(base)))
                /\ fin["Prima Total"] =
                      (IF base > 0 THEN Dollar(AmountToken(base + TaxCents(base))) ELSE NA)
           /\ (r >= 0 /\ r <= 2000 * 100) => loc.rec_num = r * 100

\* a 5,000.00 surcharge next to a valid net premium was normalized to "$ 0"
C6_Witness ==
    /\ Returned
    /\ ValueCents(recargos_raw) = 5000 * 100
    /\ loc.chosen_neta > 0
    /\ fin["Recargos"] = DollarZero

\* C7: 'IVA' is always a currency string, never 'N/A', also when the sum is
\* zero, and its amount is 16% of (chosen net + normalized surcharges +
\* fees) rounded to two decimals, within one cent.
C7_Tax ==
    Returned =>
        LET exp == TaxCents(ExpNetCents + ExpRecCents + ExpDerCents)
            shown == RenderedCents(fin["IVA"])
        IN /\ fin["IVA"] # NA
           /\ IsCurrencyString(fin["IVA"])
           /\ shown - exp <= 1 /\ exp - shown <= 1

\* the tax of a zero sum was rendered as "$0.00"
C7_Witness ==
    /\ Returned
    /\ ExpNetCents + ExpRecCents + ExpDerCents = 0
    /\ fin["IVA"] = <<"$","0",".","0","0">>

\* C8: the total premium equals chosen net + normalized surcharges + fees +
\* tax exactly, so whenever 'Prima Total' is a currency string its amount is
\* the sum of the amounts rendered for 'Prima Neta', 'Recargos', 'Derechos
\* de Póliza' and 'IVA'; net 12,345.67, surcharges 100.00, fees 50.00 give
\* tax 1,999.31 and total 14,494.98.
C8_TotalIsSum ==
    Returned =>
        /\ loc.total_num = loc.chosen_neta + loc.rec_num + loc.der_num + loc.iva_num
        /\ loc.total_num = (ExpNetCents + ExpRecCents + ExpDerCents) * 116
        /\ fin["Prima Total"] # NA =>
              RenderedCents(fin["Prima Total"]) =
                  RenderedCents(fin["Prima Neta"]) + RenderedCents(fin["Recargos"])
                  + RenderedCents(fin["Derechos de Póliza"]) + RenderedCents(fin["IVA"])
        /\ (/\ ValueCents(prima_neta_raw) = 1234567
            /\ ValueCents(recargos_raw) = 10000
            /\ ValueCents(derechos_raw) = 5000) =>
              /\ fin["IVA"] = <<"$","1",",","9","9","9",".","3","1">>
              /\ fin["Prima Total"] = <<"$","1","4",",","4","9","4",".","9","8">>

\* the example breakdown was computed with a tax that is not a whole number
\* of cents before rounding
C8_Witness ==
    /\ Returned
    /\ ValueCents(prima_neta_raw) = 1234567
    /\ ValueCents(prima_total_raw) = 0
    /\ ValueCents(recargos_raw) = 10000
    /\ ValueCents(derechos_raw) = 5000
    /\ loc.iva_num % 100 # 0
    /\ fin["Prima Total"] = <<"$","1","4",",","4","9","4",".","9","8">>

\* C9: each of 'Prima Neta', 'Derechos de Póliza' and 'Prima Total' is
\* 'N/A' exactly when its underlying value is less than or equal to zero and
\* a '$'-prefixed two-decimal currency string otherwise; net "$0.00" with
\* total "$0.00" and no surcharges or fees gives IVA "$0.00" and Prima Total
\* 'N/A'.
C9_SentinelWhenNotPositive ==
    Returned =>
        /\ (fin["Prima Neta"] = NA) <=> (ExpNetCents <= 0)
        /\ ExpNetCents > 0 => fin["Prima Neta"] = Dollar(AmountToken(ExpNetCents))
        /\ (fin["Derechos de Póliza"] = NA) <=> (ExpDerCents <= 0)
        /\ ExpDerCents > 0 => fin["Derechos de Póliza"] = Dollar(AmountToken(ExpDerCents))
        /\ (fin["Prima Total"] = NA) <=> (loc.total_num <= 0)
        /\ loc.total_num > 0 => IsCurrencyString(fin["Prima Total"])
        /\ (/\ ValueCents(prima_neta_raw) = 0 /\ ValueCents(prima_total_raw) = 0
            /\ recargos_raw.isNone /\ derechos_raw.isNone) =>
              /\ fin["IVA"] = <<"$","0",".","0","0">>
              /\ fin["Prima Total"] = NA

\* net "0.00" and total "0.00" without surcharges or fees gave 'N/A' for
\* net, fees and total
C9_Witness ==
    /\ Returned
    /\ ValueCents(prima_neta_raw) = 0 /\ ValueCents(prima_total_raw) = 0
    /\ recargos_raw.isNone /\ derechos_raw.isNone
    /\ fin["Prima Neta"] = NA /\ fin["Derechos de Póliza"] = NA
    /\ fin["Prima Total"] = NA

\* C10: 'Recargos' is the literal "$ 0" exactly when the normalized
\* surcharge used in the tax and total computation is zero, and a currency
\* string of that value otherwise; it is never 'N/A'.
C10_SurchargeRendering ==
    Returned =>
        /\ (fin["Recargos"] = DollarZero) <=> (loc.rec_num = 0)
        /\ loc.rec_num = ExpRecCents * 100
        /\ ExpRecCents # 0 => fin["Recargos"] = Dollar(AmountToken(ExpRecCents))
        /\ fin["Recargos"] # NA

\* an absent surcharge next to a valid net premium was rendered as "$ 0"
\* while the net premium was rendered as an amount
C10_Witness ==
    /\ Returned
    /\ recargos_raw.isNone
    /\ fin["Recargos"] = DollarZero
    /\ IsCurrencyString(fin["Prima Neta"])

(***************************************************************************)
(* Absent and malformed monetary inputs (SpecMal).                         *)
(***************************************************************************)
\* the input is absent, empty, or one of the malformed strings
Unparsable(raw) == raw.isNone \/ raw.s = <<>> \/ raw.s \in MalformedStrings

\* what an input says when every unparsable input counts as absent
ValueOrAbsent(raw) == IF Unparsable(raw) THEN 0 - 1 ELSE ValueCents(raw)

MalNetCents ==
    LET n == ValueOrAbsent(prima_neta_raw)
        t == ValueOrAbsent(prima_total_raw)
    IN IF n > 1000 * 100 THEN n ELSE IF t > 1000 * 100 THEN t ELSE 0

MalRecCents ==
    LET r == ValueOrAbsent(recargos_raw)
    IN IF r < 0 \/ r > 2000 * 100 THEN 0 ELSE r

MalDerCents ==
    LET d == ValueOrAbsent(derechos_raw)
    IN IF d < 0 THEN 0 ELSE d

MalSumCents == MalNetCents + MalRecCents + MalDerCents

Rendered == bpc = "rendered"

N_ANA == <<"A","N","A"," ","S","e","g","u","r","o","s">>
N_HDI == <<"H","D","I"," ","S","e","g","u","r","o","s">>
N_QUALITAS == <<"Q","u","a","l","i","t","a","s">>
N_ATLAS == <<"S","e","g","u","r","o","s"," ","A","t","l","a","s">>

\* the provider whose extractor a document of the catalogue is handed to
ProviderOf(doc) ==
    CASE doc.text = T_ANA -> N_ANA
      [] doc.text = T_HDI -> N_HDI
      [] doc.text = T_QUALITAS -> N_QUALITAS
      [] doc.text = T_ATLAS -> N_ATLAS
      [] OTHER -> <<>>

\* the document a record of the batch was extracted from
DocOf(i) == files[origin[i]]

NameOf(i) == parsed_data[i]["company"]

IsText(v) == v # <<>> /\ \A j \in DOMAIN v : v[j] \in STRING

\* C12: every record that process_files hands to the view has every field
\* of MASTER_FIELDS as a key, with a non-empty string as its value, whatever
\* extractor produced the record and whatever the document contained.
C12_AllFieldsPresent ==
    Rendered =>
        \A i \in 1..Len(parsed_data) :
            \A k \in 1..Len(MASTER_FIELDS) :
                /\ MASTER_FIELDS[k] \in DOMAIN parsed_data[i]
                /\ IsText(parsed_data[i][MASTER_FIELDS[k]])

\* a batch of three providers, one of them from a document without any of
\* the labels, has been rendered
C12_Witness ==
    /\ Rendered /\ Len(parsed_data) = 3
    /\ NameOf(1) # NameOf(2) /\ NameOf(2) # NameOf(3)
    /\ \E i \in 1..3 : DocOf(i).content = "bare"
    /\ \E i \in 1..3 : DocOf(i).content = "full"

\* the place of a display name in ascending str order
Rank(name) ==
    CASE name = N_ANA -> 1
      [] name = N_HDI -> 2
      [] name = N_QUALITAS -> 3
      [] name = N_ATLAS -> 4

Identity(n) == [i \in 1..n |-> i]

\* C13: the rendered order is the stable ascending sort of the parsed
\* records by display name: each record that parsed appears exactly once,
\* names do not decrease, records of the same name keep their upload
\* order, and sorting the rendered batch again changes nothing.
C13_StableSort ==
    Rendered =>
        /\ Len(origin) = Len(parsed_data)
        /\ \A i, j \in 1..Len(origin) : i # j => origin[i] # origin[j]
        /\ { origin[i] : i \in 1..Len(origin) }
             = (1..Len(files)) \ { errors[j].file : j \in 1..Len(errors) }
        /\ \A i \in 1..Len(parsed_data) : NameOf(i) = ProviderOf(DocOf(i))
        /\ \A i, j \in 1..Len(parsed_data) :
              i < j => /\ Rank(NameOf(i)) <= Rank(NameOf(j))
                       /\ NameOf(i) = NameOf(j) => origin[i] < origin[j]
        /\ SortOrder(parsed_data, Len(parsed_data)) = Identity(Len(parsed_data))

\* three records were parsed, the upload was not in name order, and two of
\* the records have the same name but different contents
C13_Witness ==
    /\ Rendered /\ Len(parsed_data) = 3
    /\ origin # Identity(3)
    /\ \E i, j \in 1..3 : i < j /\ NameOf(i) = NameOf(j)
                           /\ DocOf(i).content # DocOf(j).content

BelongsToAtlas(i) == NameOf(i) = N_ATLAS

WithoutAtlasField == SubSeq(MASTER_FIELDS, 1, 9) \o SubSeq(MASTER_FIELDS, 11, 18)

\* C14: the field list handed to the view is MASTER_FIELDS without
\* 'Atlas Cero Plus por PT de DM' when no record belongs to Seguros Atlas,
\* and the whole of MASTER_FIELDS otherwise.
C14_FieldSuppression ==
    Rendered =>
        dyn_fields = IF \E i \in 1..Len(parsed_data) : BelongsToAtlas(i)
                     THEN MASTER_FIELDS
                     ELSE WithoutAtlasField

\* a batch without a Seguros Atlas record has been rendered without the
\* field
C14_Witness ==
    /\ Rendered /\ Len(parsed_data) >= 2
    /\ \A i \in 1..Len(parsed_data) : ~BelongsToAtlas(i)
    /\ \A k \in 1..Len(dyn_fields) : dyn_fields[k] # ATLAS_FIELD

\* a batch with a Seguros Atlas record and another provider's record has
\* been rendered with the field
C14_WitnessAtlas ==
    /\ Rendered
    /\ \E i, j \in 1..Len(parsed_data) : BelongsToAtlas(i) /\ ~BelongsToAtlas(j)
    /\ \E k \in 1..Len(dyn_fields) : dyn_fields[k] = ATLAS_FIELD

Exported == epc = "pdf"

ExportedAtlas(i) == Get(exp_data[i], "company", <<>>) = N_ATLAS

\* C15: the field list of the final render of the export route omits
\* 'Atlas Cero Plus por PT de DM' when the exported data holds no Seguros
\* Atlas record.
C15_ExportFieldSuppression ==
    Exported =>
        exp_fields = IF \E i \in 1..Len(exp_data) : ExportedAtlas(i)
                     THEN MASTER_FIELDS
                     ELSE WithoutAtlasField

FixedAccident == <<"$","1","0","0",",","0","0","0",".","0","0">>
ThreePercent == <<"3","%">>
FivePercent == <<"5","%">>

\* C16: after the overrides every record has 'Accidente al conductor' =
\* '$100,000.00', 'Deducible - DM' = '3%' and 'Deducible - RT' = '5%',
\* whatever was extracted.
C16_FixedOverrides ==
    Rendered =>
        \A i \in 1..Len(parsed_data) :
            /\ parsed_data[i]["Accidente al conductor"] = FixedAccident
            /\ parsed_data[i]["Deducible - DM"] = ThreePercent
            /\ parsed_data[i]["Deducible - RT"] = FivePercent

\* one record whose document stated another accident benefit and one whose
\* document had neither material damage nor theft coverage have been
\* overridden
C16_Witness ==
    /\ Rendered
    /\ \E i \in 1..Len(parsed_data) :
          /\ extracted[i]["Accidente al conductor"] \notin {NA, FixedAccident}
          /\ extracted[i]["Daños Materiales"] # NA
    /\ \E j \in 1..Len(parsed_data) :
          /\ extracted[j]["Daños Materiales"] = NA
          /\ extracted[j]["Robo Total"] = NA
          /\ "Deducible - DM" \notin DOMAIN extracted[j]

Covered == <<"A","M","P","A","R","A","D","A">>

\* C17: after the overrides 'Asistencia Viajes' is 'AMPARADA' in every
\* record whose document had no travel-assistance status, and the
\* extracted status otherwise.
C17_TravelDefault ==
    Rendered =>
        \A i \in 1..Len(parsed_data) :
            IF ContentOf(DocOf(i).content).av_status.isNone
            THEN parsed_data[i]["Asistencia Viajes"] = Covered
            ELSE parsed_data[i]["Asistencia Viajes"] = extracted[i]["Asistencia Viajes"]

\* C18: in the rendered batch 'Atlas Cero Plus por PT de DM' is 'AMPARADA'
\* in the Seguros Atlas records and 'N/A' in all others, and
\* 'Desbielamiento por agua al motor' is overridden to 'AMPARADA' only in
\* the Seguros Atlas records.
C18_AtlasOnlyCoverage ==
    Rendered =>
        \A i \in 1..Len(parsed_data) :
            /\ parsed_data[i][ATLAS_FIELD] = IF BelongsToAtlas(i) THEN Covered ELSE NA
            /\ parsed_data[i]["Desbielamiento por agua al motor"]
                 = IF BelongsToAtlas(i) THEN Covered
                   ELSE extracted[i]["Desbielamiento por agua al motor"]

BrandColor(name) ==
    CASE name = N_ANA -> "#FE1034"
      [] name = N_HDI -> "#006729"
      [] name = N_QUALITAS -> "#666678"
      [] name = N_ATLAS -> "#D0112B"
      [] OTHER -> "#0b4a6a"

\* C19: there is one color per record, in record order: #FE1034 for ANA
\* Seguros, #006729 for HDI Seguros, #666678 for Qualitas, #D0112B for
\* Seguros Atlas, and #0b4a6a for a name that contains no brand key (which
\* only a record posted to the export route can have).
C19_HeaderColors ==
    /\ Rendered =>
          /\ Len(header_colors) = Len(parsed_data)
          /\ \A i \in 1..Len(parsed_data) : header_colors[i] = BrandColor(NameOf(i))
    /\ Exported =>
          /\ Len(exp_colors) = Len(exp_data)
          /\ \A i \in 1..Len(exp_data) :
                exp_colors[i] = BrandColor(Get(exp_data[i], "company", <<>>))

\* three records of different providers have been rendered, and a record
\* of no brand has been exported
C19_Witness ==
    /\ Rendered /\ Len(parsed_data) = 3
    /\ header_colors[1] # header_colors[2] /\ header_colors[2] # header_colors[3]
    /\ Exported /\ \E i \in 1..Len(exp_colors) : exp_colors[i] = "#0b4a6a"

WidthText(n) ==
    CASE n = 0 -> <<"7","8",".","0","0","%">>
      [] n = 1 -> <<"7","8",".","0","0","%">>
      [] n = 2 -> <<"3","9",".","0","0","%">>
      [] n = 3 -> <<"2","6",".","0","0","%">>
      [] n = 4 -> <<"1","9",".","5","0","%">>
      [] n = 5 -> <<"1","5",".","6","0","%">>
      [] n = 6 -> <<"1","3",".","0","0","%">>

\* C20: the column width is 78 divided by the larger of the record count
\* and one, with two decimals and a percent sign, in the upload route and
\* in the export route, where an empty list gives 78.00%.
C20_ColumnWidth ==
    /\ Rendered => company_col_width = WidthText(Len(parsed_data))
    /\ Exported => exp_width = WidthText(Len(exp_data))

\* three records have been rendered and an empty list has been exported
C20_Witness ==
    /\ Rendered /\ Len(parsed_data) = 3
    /\ Exported /\ exp_data = <<>> /\ exp_width = WidthText(0)

Finished == bpc \in {"done", "rendered"}

\* no file was selected: the upload is empty or holds only empty file names
NothingSelected == \A i \in 1..Len(files) : files[i].filename = "empty"

\* the file is a PDF that can be read and that a classification rule accepts
Parsable(doc) == doc.filename = "pdf" /\ doc.read = "ok" /\ ProviderOf(doc) # <<>>

NoValidReported == view.error = "No valid PDFs could be parsed"

\* C21 as stated: process_files reports 'No valid PDFs could be parsed'
\* exactly when no uploaded file produced a record, and a rendered batch has
\* at least one record.
C21_FailureIffNoRecord ==
    Finished =>
        /\ NoValidReported <=> \A i \in 1..Len(files) : ~Parsable(files[i])
        /\ view.template = "results.html" => parsed_data # <<>>

\* C21 as amended: 'No valid PDFs could be parsed' is reported exactly when
\* some file was selected and no uploaded file produced a record; when no
\* file was selected 'No files selected' is reported instead; a rendered
\* batch has at least one record.
C21_FailureIffSelectedNoRecord ==
    Finished =>
        /\ NoValidReported <=>
              (~NothingSelected /\ \A i \in 1..Len(files) : ~Parsable(files[i]))
        /\ NothingSelected <=> view.error = "No files selected"
        /\ view.template = "results.html" <=> \E i \in 1..Len(files) : Parsable(files[i])
        /\ view.template = "results.html" => parsed_data # <<>>

\* three files that fail in different ways have led to the top-level
\* failure, one of them with an empty file name
C21_Witness ==
    /\ Finished /\ NoValidReported /\ Len(files) = 3
    /\ \E i \in 1..3 : files[i].filename = "empty"
    /\ \E i, j \in 1..Len(errors) : errors[i].kind # errors[j].kind

IsPrefix(p, q) == Len(p) <= Len(q) /\ SubSeq(q, 1, Len(p)) = p

\* C22: every file handled by the loop leaves exactly one outcome, a record
\* or an error entry, so that after the loop records + errors = files; a
\* file that fails stops no later file and changes no earlier record.
C22_OneOutcomePerFile ==
    /\ [](bpc = "loop" =>
            /\ Len(parsed_data) + Len(errors) = idx - 1
            /\ { origin[k] : k \in 1..Len(origin) }
                 \cup { errors[k].file : k \in 1..Len(errors) } = 1..(idx - 1)
            /\ \A k \in 1..Len(origin) : Parsable(files[origin[k]])
            /\ \A k \in 1..Len(errors) : ~Parsable(files[errors[k].file]))
    /\ [][(bpc = "loop" /\ bpc' = "loop") =>
            /\ idx' = idx + 1
            /\ IsPrefix(parsed_data, parsed_data')
            /\ IsPrefix(errors, errors')]_vars

\* the loop has ended on three files: a record, then a file whose stream
\* cannot be read, then another record
C22_Witness ==
    /\ bpc = "loop" /\ idx > Len(files) /\ Len(files) = 3
    /\ origin = <<1, 3>>
    /\ Len(errors) = 1 /\ errors[1].kind = "Error processing"

OverrideKeys == {"Atlas Cero Plus por PT de DM", "Deducible - DM", "Deducible - RT"}

\* C23: sort, overrides, field list and presentation metadata are computed
\* only after every uploaded file has its outcome: while a file is
\* unprocessed nothing is assembled, and the step that renders starts from
\* a completed loop.
C23_AssemblyBarrier ==
    /\ [](bpc \in {"start", "loop"} =>
            /\ extracted = <<>> /\ header_colors = <<>> /\ dyn_fields = <<>>
            /\ company_col_width = <<>>
            /\ \A k \in 1..Len(parsed_data) : DOMAIN parsed_data[k] \cap OverrideKeys = {})
    /\ [][(bpc # "rendered" /\ bpc' = "rendered") =>
            /\ idx > Len(files)
            /\ Len(parsed_data) + Len(errors) = Len(files)]_vars

\* a batch of three files, one of them failed, has been assembled
C23_Witness ==
    /\ Rendered /\ Len(files) = 3 /\ Len(errors) = 1 /\ Len(parsed_data) = 2
    /\ extracted # <<>> /\ header_colors # <<>>

Standard == <<"C","O","N","T","A","D","O">>

\* C26: in every record of a rule-based extractor 'Forma de Pago' is
\* 'CONTADO' when the document has no payment-method label, and it is never
\* 'N/A'.
C26_PaymentDefault ==
    Rendered =>
        \A i \in 1..Len(parsed_data) :
            /\ ContentOf(DocOf(i).content).fp.isNone
                  => extracted[i]["Forma de Pago"] = Standard
            /\ extracted[i]["Forma de Pago"] # NA

Overridden(i) ==
    {"Atlas Cero Plus por PT de DM", "Accidente al conductor",
     "Deducible - DM", "Deducible - RT"}
    \cup (IF BelongsToAtlas(i) THEN {"Desbielamiento por agua al motor"} ELSE {})

\* C29: the override step removes no key and changes no value other than
\* the four overridden fields, 'Desbielamiento por agua al motor' of Seguros
\* Atlas records, and 'Asistencia Viajes' where the key was missing.
C29_OverrideFrame ==
    Rendered =>
        /\ Len(parsed_data) = Len(extracted)
        /\ \A i \in 1..Len(parsed_data) :
              /\ DOMAIN extracted[i] \subseteq DOMAIN parsed_data[i]
              /\ \A k \in DOMAIN extracted[i] \ Overridden(i) :
                    parsed_data[i][k] = extracted[i][k]

\* a Seguros Atlas record and a record whose travel assistance was
\* extracted as 'N/A' or as a status other than 'AMPARADA' have been
\* overridden, with financial fields from the document's amounts
C29_Witness ==
    /\ Rendered
    /\ \E i \in 1..Len(parsed_data) : BelongsToAtlas(i)
    /\ \E i \in 1..Len(parsed_data) :
          /\ extracted[i]["Asistencia Viajes"] # Covered
          /\ extracted[i]["Prima Total"] # NA
          /\ extracted[i]["Accidente al conductor"] # FixedAccident

\* the export route was given the records of the rendered page
PageExported ==
    /\ Rendered /\ Exported /\ Len(exp_data) = Len(parsed_data)
    /\ \A i \in 1..Len(exp_data) : Get(exp_data[i], "company", <<>>) = NameOf(i)

\* C30: the recomputation of the export route leaves 'IVA' and 'Prima
\* Total' of every record as _compute_financials produced them, also when
\* the total is zero.
C30_ExportAgrees ==
    PageExported =>
        \A i \in 1..Len(exp_data) :
            /\ exp_data[i]["IVA"] = parsed_data[i]["IVA"]
            /\ exp_data[i]["Prima Total"] = parsed_data[i]["Prima Total"]


(***************************************************************************)
(* Properties of _extract_amount_after (SpecAmt).                          *)
(***************************************************************************)
AmtReturned == amt_pc = "returned"

\* the k-th anchor occurs in the text, whatever the case of either
Occurs(k) ==
    \E i \in 1..Len(amt_text) :
        /\ i + Len(anchors[k]) - 1 <= Len(amt_text)
        /\ \A j \in 1..Len(anchors[k]) :
               Upper(<<amt_text[i + j - 1]>>) = Upper(<<anchors[k][j]>>)

\* the position right behind the first occurrence of the k-th anchor
AfterAnchor(k) ==
    LET at == { i \in 1..Len(amt_text) :
                  /\ i + Len(anchors[k]) - 1 <= Len(amt_text)
                  /\ \A j \in 1..Len(anchors[k]) :
                         Upper(<<amt_text[i + j - 1]>>) = Upper(<<anchors[k][j]>>) }
    IN (CHOOSE i \in at : \A j \in at : i <= j) + Len(anchors[k])

\* the positions of the window behind the k-th anchor
WindowOf(k) ==
    { i \in AfterAnchor(k)..(AfterAnchor(k) + lookahead_chars - 1) : i <= Len(amt_text) }

Numerals == {"0", "1", "2", "3", "4", "5", "6", "7", "8", "9"}

\* the window behind the k-th anchor holds a currency-shaped token: a
\* single digit is one
HoldsToken(k) == \E i \in WindowOf(k) : amt_text[i] \in Numerals

\* one to three digits, groups of a comma and three digits, and at most
\* one group of a point and two digits at the end
CurrencyShaped(t) ==
    \E n \in 1..3, g \in 0..Len(t), dec \in {0, 3} :
        /\ Len(t) = n + 4 * g + dec
        /\ \A i \in 1..n : t[i] \in Numerals
        /\ \A j \in 0..(g - 1) :
               /\ t[n + 4 * j + 1] = ","
               /\ \A i \in 2..4 : t[n + 4 * j + i] \in Numerals
        /\ dec = 3 =>
               /\ t[Len(t) - 2] = "."
               /\ t[Len(t) - 1] \in Numerals /\ t[Len(t)] \in Numerals

\* the value is the token at the first digit of the window behind the k-th
\* anchor, and lies within that window
TokenOfWindow(k) ==
    LET first == CHOOSE i \in WindowOf(k) :
                     /\ amt_text[i] \in Numerals
                     /\ \A j \in WindowOf(k) : amt_text[j] \in Numerals => i <= j
        last == first + Len(amt_result.s) - 1
    IN /\ ~amt_result.isNone
       /\ CurrencyShaped(amt_result.s)
       /\ last \in WindowOf(k)
       /\ last < AfterAnchor(k) + lookahead_chars
       /\ SubSeq(amt_text, first, last) = amt_result.s

\* the first anchor, in the order of the list, that occurs in the text
FirstOccurring == CHOOSE k \in 1..Len(anchors) : Occurs(k) /\ \A j \in 1..(k - 1) : ~Occurs(j)

\* the first anchor, in the order of the list, that occurs in the text and
\* has a token in its window
FirstHolding ==
    CHOOSE k \in 1..Len(anchors) :
        /\ Occurs(k) /\ HoldsToken(k)
        /\ \A j \in 1..(k - 1) : ~(Occurs(j) /\ HoldsToken(j))

\* C27 as stated: the value is the first currency-shaped token of the window
\* behind the first anchor of the list that occurs in the text, and there is
\* no value when no anchor occurs or that window holds no token.
C27_FirstOccurringAnchor ==
    AmtReturned =>
        IF \A k \in 1..Len(anchors) : ~Occurs(k) THEN amt_result.isNone
        ELSE IF ~HoldsToken(FirstOccurring) THEN amt_result.isNone
        ELSE TokenOfWindow(FirstOccurring)

\* C27 amended: the value is the first currency-shaped token of the window
\* behind the first anchor of the list that occurs in the text and has such
\* a token in its window; the token lies within lookahead_chars characters
\* of the anchor's end, and there is no value when no anchor occurs or no
\* occurring anchor has a token in its window.
C27_FirstHoldingAnchor ==
    AmtReturned =>
        IF \A k \in 1..Len(anchors) : ~(Occurs(k) /\ HoldsToken(k)) THEN amt_result.isNone
        ELSE TokenOfWindow(FirstHolding)

\* a later anchor gives the value because the window of an earlier one
\* that occurs holds no token, and a token lies past a short window
C27_Witness ==
    /\ AmtReturned
    /\ ~amt_result.isNone
    /\ Len(anchors) = 2 /\ Occurs(1) /\ ~HoldsToken(1)

C27_WitnessWindow ==
    /\ AmtReturned
    /\ amt_result.isNone
    /\ lookahead_chars < lookahead_default
    /\ \E k \in 1..Len(anchors) : Occurs(k)
    /\ \E i \in 1..Len(amt_text) : amt_text[i] \in Numerals


(***************************************************************************)
(* Properties of extract_vehicle (SpecVeh).                                *)
(***************************************************************************)
VehReturned == veh_pc = "returned"

\* the text holds the label of a pattern, whatever its case
HoldsLabel ==
    \E i \in 1..Len(veh_text) :
        /\ i + 7 <= Len(veh_text)
        /\ Upper(SubSeq(veh_text, i, i + 7)) = <<"V","E","H","I","C","U","L","O">>

\* the text holds a brand of the list
HoldsBrand ==
    \E k \in 1..Len(BRANDS), i \in 1..Len(veh_text) :
        /\ i + Len(BRANDS[k]) - 1 <= Len(veh_text)
        /\ Upper(SubSeq(veh_text, i, i + Len(BRANDS[k]) - 1)) = BRANDS[k]

\* the words of the descriptor, each between two spaces
Spaced == <<" ">> \o vehicle \o <<" ">>

\* the token stands in the descriptor as a whole token behind the first
\* word
NoiseBehindBrand(t) ==
    \E i \in 2..Len(Spaced) :
        /\ i + Len(t) + 1 <= Len(Spaced)
        /\ SubSeq(Spaced, i, i + Len(t) + 1) = <<" ">> \o t \o <<" ">>

SingleSpaced ==
    /\ vehicle # <<>> => vehicle[1] # " " /\ vehicle[Len(vehicle)] # " "
    /\ \A i \in 1..(Len(vehicle) - 1) : ~(vehicle[i] = " " /\ vehicle[i + 1] = " ")

\* C28: extract_vehicle returns the empty string when no pattern matches;
\* the descriptor it returns holds no token of the noise vocabulary as a
\* whole token behind the brand, also when noise tokens are adjacent or
\* repeated in the candidate, and its words are separated by single spaces.
C28_NoNoiseInVehicle ==
    VehReturned =>
        /\ ~HoldsLabel /\ ~HoldsBrand => vehicle = <<>>
        /\ \A k \in 1..Len(noise_tokens) : ~NoiseBehindBrand(noise_tokens[k])
        /\ SingleSpaced

(***************************************************************************)
(* Properties of parse_pdf_ai (SpecAI).                                    *)
(***************************************************************************)
AiDone == ai_pc = "done"

\* the request ended with a status other than 200, a body that is not JSON,
\* or an exception
Failed(i) == requests[i].outcome \in {"status", "malformed", "exception"}

\* the classification named one of the four companies
NamedCompany == ~ai_company.isNone /\ ai_company.s \in {"HDI", "Qualitas", "ANA", "Atlas"}

\* C24 as stated: with the backend in use, parse_pdf_ai issues exactly one
\* request per document, with a fixed timeout, and repeats none.
C24_OneRequest ==
    AiDone /\ api_key =>
        /\ Len(requests) = 1
        /\ \A i, j \in 1..Len(requests) : requests[i].timeout = requests[j].timeout

\* C24 amended: with the backend in use, parse_pdf_ai issues one
\* classification request and, only when the classification names one of
\* the four companies, one extraction request behind it, each once and with
\* its fixed timeout (60 and 90 seconds); no request follows one that
\* failed, and without an API key no request is issued.
C24_OneRequestPerStep ==
    /\ Len(requests) <= 2
    /\ \A i \in 1..Len(requests) :
           /\ requests[i].step = (IF i = 1 THEN "classify" ELSE "extract")
           /\ requests[i].timeout = (IF i = 1 THEN 60 ELSE 90)
           /\ Failed(i) => i = Len(requests)
    /\ ~api_key => requests = <<>>
    /\ AiDone /\ api_key => Len(requests) = (IF NamedCompany THEN 2 ELSE 1)

\* both requests were issued and the second one failed
C24_Witness ==
    /\ AiDone /\ api_key
    /\ Len(requests) = 2 /\ Failed(2)

\* C25: when a request of the classification or of the extraction ends
\* with a status other than 200, a body that is not JSON or an exception,
\* parse_pdf_ai returns None and no record.
C25_FailureIsNone ==
    AiDone /\ (\E i \in 1..Len(requests) : Failed(i)) => ai_result.isNone

=============================================================================
